---- MODULE Spec2Model ----
(***************************************************************************)
(* Travel Order Resolver: text normalisation (src/nlp/preprocessing.py),   *)
(* gazetteer (src/nlp/gazetteer.py) and rule-based extractor               *)
(* (src/nlp/baseline.py).                                                  *)
(*                                                                         *)
(* A Python str is a sequence of characters.  A character is a TLA+ string:*)
(* a printable ASCII character stands for itself, every other character is *)
(* written by its code point ("U+00E9" is e-acute, "U+2013" the en dash).  *)
(* The Python value None and a non-str object are the two one-element      *)
(* sequences PyNone and PyInt, which are no str.                           *)
(***************************************************************************)
EXTENDS Naturals, Integers, Sequences, FiniteSets, TLC

VARIABLES cities, stations, aliases, detached, normalized_to_original,
          CITY_ALIASES, files, pc, op, arg, raised, result

\* the fields of the Gazetteer; detached is the set of alias keys whose list
\* object belongs to this instance alone (the other lists are the objects of
\* the module's CITY_ALIASES, which dict.copy() shares)
gaz == <<cities, stations, aliases, detached, normalized_to_original>>

\* the module-level alias table and the files on disk
world == <<CITY_ALIASES, files>>

vars == <<cities, stations, aliases, detached, normalized_to_original,
          CITY_ALIASES, files, pc, op, arg, raised, result>>

(***************************************************************************)
(* Python values and str primitives                                        *)
(***************************************************************************)
PyNone == <<"<None>">>
PyInt == <<"<int>">>

IsStr(v) == v # PyNone /\ v # PyInt

\* the guard without its isinstance test: `if not text`
NotText_truthiness_only(v) == v = <<>> \/ v = PyNone

\* `not text or not isinstance(text, str)`: the guard that opens every function
NotText(v) == v = <<>> \/ ~IsStr(v)

\* str.isspace() characters: space, tab, line feed, no-break space
Whitespace == {" ", "U+0009", "U+000A", "U+00A0"}

Digits == {"0", "1", "2", "3", "4", "5", "6", "7", "8", "9"}

RECURSIVE Flatten(_)
Flatten(ss) == IF ss = <<>> THEN <<>> ELSE Head(ss) \o Flatten(Tail(ss))

\* a in b, for two str
IsSubstring(a, b) ==
    \E i \in 0..(Len(b) - Len(a)) : SubSeq(b, i + 1, i + Len(a)) = a

\* x in xs, for a list
InList(x, xs) == \E i \in 1..Len(xs) : xs[i] = x

\* s.replace(old, new): leftmost, non-overlapping occurrences
RECURSIVE Replace(_, _, _)
Replace(s, old, new) ==
    IF Len(s) < Len(old) \/ old = <<>> THEN s
    ELSE IF SubSeq(s, 1, Len(old)) = old
         THEN new \o Replace(SubSeq(s, Len(old) + 1, Len(s)), old, new)
         ELSE <<Head(s)>> \o Replace(Tail(s), old, new)

\* s.split(): the maximal runs of non-whitespace characters
RECURSIVE SplitFrom(_, _, _)
SplitFrom(s, cur, acc) ==
    IF s = <<>> THEN (IF cur = <<>> THEN acc ELSE Append(acc, cur))
    ELSE IF Head(s) \in Whitespace
         THEN SplitFrom(Tail(s), <<>>, IF cur = <<>> THEN acc ELSE Append(acc, cur))
         ELSE SplitFrom(Tail(s), Append(cur, Head(s)), acc)

Split(s) == SplitFrom(s, <<>>, <<>>)

\* ' '.join(words)
RECURSIVE Join(_)
Join(words) ==
    IF words = <<>> THEN <<>>
    ELSE IF Len(words) = 1 THEN words[1]
    ELSE words[1] \o <<" ">> \o Join(Tail(words))

\* s.strip()
RECURSIVE Strip(_)
Strip(s) ==
    IF s = <<>> THEN s
    ELSE IF Head(s) \in Whitespace THEN Strip(Tail(s))
    ELSE IF s[Len(s)] \in Whitespace THEN Strip(SubSeq(s, 1, Len(s) - 1))
    ELSE s

\* str.lower(), character by character
ToLower ==
    ("A" :> "a") @@ ("B" :> "b") @@ ("C" :> "c") @@ ("D" :> "d") @@ ("E" :> "e") @@
    ("F" :> "f") @@ ("G" :> "g") @@ ("H" :> "h") @@ ("I" :> "i") @@ ("J" :> "j") @@
    ("K" :> "k") @@ ("L" :> "l") @@ ("M" :> "m") @@ ("N" :> "n") @@ ("O" :> "o") @@
    ("P" :> "p") @@ ("Q" :> "q") @@ ("R" :> "r") @@ ("S" :> "s") @@ ("T" :> "t") @@
    ("U" :> "u") @@ ("V" :> "v") @@ ("W" :> "w") @@ ("X" :> "x") @@ ("Y" :> "y") @@
    ("Z" :> "z") @@ ("U+00C0" :> "U+00E0") @@ ("U+00C1" :> "U+00E1") @@
    ("U+00C2" :> "U+00E2") @@ ("U+00C3" :> "U+00E3") @@ ("U+00C4" :> "U+00E4") @@
    ("U+00C5" :> "U+00E5") @@ ("U+00C6" :> "U+00E6") @@ ("U+00C7" :> "U+00E7") @@
    ("U+00C8" :> "U+00E8") @@ ("U+00C9" :> "U+00E9") @@ ("U+00CA" :> "U+00EA") @@
    ("U+00CB" :> "U+00EB") @@ ("U+00CC" :> "U+00EC") @@ ("U+00CD" :> "U+00ED") @@
    ("U+00CE" :> "U+00EE") @@ ("U+00CF" :> "U+00EF") @@ ("U+00D0" :> "U+00F0") @@
    ("U+00D1" :> "U+00F1") @@ ("U+00D2" :> "U+00F2") @@ ("U+00D3" :> "U+00F3") @@
    ("U+00D4" :> "U+00F4") @@ ("U+00D5" :> "U+00F5") @@ ("U+00D6" :> "U+00F6") @@
    ("U+00D8" :> "U+00F8") @@ ("U+00D9" :> "U+00F9") @@ ("U+00DA" :> "U+00FA") @@
    ("U+00DB" :> "U+00FB") @@ ("U+00DC" :> "U+00FC") @@ ("U+00DD" :> "U+00FD") @@
    ("U+00DE" :> "U+00FE")

Lower(s) == [i \in 1..Len(s) |-> IF s[i] \in DOMAIN ToLower THEN ToLower[s[i]] ELSE s[i]]

\* unicodedata.normalize('NFD', .): canonical decomposition of the Latin-1 letters
Decomposition ==
    ("U+00C0" :> <<"A", "U+0300">>) @@ ("U+00C1" :> <<"A", "U+0301">>) @@
    ("U+00C2" :> <<"A", "U+0302">>) @@ ("U+00C3" :> <<"A", "U+0303">>) @@
    ("U+00C4" :> <<"A", "U+0308">>) @@ ("U+00C5" :> <<"A", "U+030A">>) @@
    ("U+00C7" :> <<"C", "U+0327">>) @@ ("U+00C8" :> <<"E", "U+0300">>) @@
    ("U+00C9" :> <<"E", "U+0301">>) @@ ("U+00CA" :> <<"E", "U+0302">>) @@
    ("U+00CB" :> <<"E", "U+0308">>) @@ ("U+00CC" :> <<"I", "U+0300">>) @@
    ("U+00CD" :> <<"I", "U+0301">>) @@ ("U+00CE" :> <<"I", "U+0302">>) @@
    ("U+00CF" :> <<"I", "U+0308">>) @@ ("U+00D1" :> <<"N", "U+0303">>) @@
    ("U+00D2" :> <<"O", "U+0300">>) @@ ("U+00D3" :> <<"O", "U+0301">>) @@
    ("U+00D4" :> <<"O", "U+0302">>) @@ ("U+00D5" :> <<"O", "U+0303">>) @@
    ("U+00D6" :> <<"O", "U+0308">>) @@ ("U+00D9" :> <<"U", "U+0300">>) @@
    ("U+00DA" :> <<"U", "U+0301">>) @@ ("U+00DB" :> <<"U", "U+0302">>) @@
    ("U+00DC" :> <<"U", "U+0308">>) @@ ("U+00DD" :> <<"Y", "U+0301">>) @@
    ("U+00E0" :> <<"a", "U+0300">>) @@ ("U+00E1" :> <<"a", "U+0301">>) @@
    ("U+00E2" :> <<"a", "U+0302">>) @@ ("U+00E3" :> <<"a", "U+0303">>) @@
    ("U+00E4" :> <<"a", "U+0308">>) @@ ("U+00E5" :> <<"a", "U+030A">>) @@
    ("U+00E7" :> <<"c", "U+0327">>) @@ ("U+00E8" :> <<"e", "U+0300">>) @@
    ("U+00E9" :> <<"e", "U+0301">>) @@ ("U+00EA" :> <<"e", "U+0302">>) @@
    ("U+00EB" :> <<"e", "U+0308">>) @@ ("U+00EC" :> <<"i", "U+0300">>) @@
    ("U+00ED" :> <<"i", "U+0301">>) @@ ("U+00EE" :> <<"i", "U+0302">>) @@
    ("U+00EF" :> <<"i", "U+0308">>) @@ ("U+00F1" :> <<"n", "U+0303">>) @@
    ("U+00F2" :> <<"o", "U+0300">>) @@ ("U+00F3" :> <<"o", "U+0301">>) @@
    ("U+00F4" :> <<"o", "U+0302">>) @@ ("U+00F5" :> <<"o", "U+0303">>) @@
    ("U+00F6" :> <<"o", "U+0308">>) @@ ("U+00F9" :> <<"u", "U+0300">>) @@
    ("U+00FA" :> <<"u", "U+0301">>) @@ ("U+00FB" :> <<"u", "U+0302">>) @@
    ("U+00FC" :> <<"u", "U+0308">>) @@ ("U+00FD" :> <<"y", "U+0301">>) @@
    ("U+00FF" :> <<"y", "U+0308">>)

NFD(s) ==
    Flatten([i \in 1..Len(s) |->
                IF s[i] \in DOMAIN Decomposition THEN Decomposition[s[i]] ELSE <<s[i]>>])

\* unicodedata.category(char) = 'Mn'
CombiningMarks ==
    {"U+0300", "U+0301", "U+0302", "U+0303", "U+0308", "U+030A", "U+0327"}

\* the regular expression ranges a-zA-Z and À-ÿ
AsciiLetters ==
    {"a", "b", "c", "d", "e", "f", "g", "h", "i", "j", "k", "l", "m", "n", "o", "p", "q", "r",
    "s", "t", "u", "v", "w", "x", "y", "z", "A", "B", "C", "D", "E", "F", "G", "H", "I", "J",
    "K", "L", "M", "N", "O", "P", "Q", "R", "S", "T", "U", "V", "W", "X", "Y", "Z"}

Latin1Letters ==
    {"U+00C0", "U+00C1", "U+00C2", "U+00C3", "U+00C4", "U+00C5", "U+00C6", "U+00C7", "U+00C8",
    "U+00C9", "U+00CA", "U+00CB", "U+00CC", "U+00CD", "U+00CE", "U+00CF", "U+00D0", "U+00D1",
    "U+00D2", "U+00D3", "U+00D4", "U+00D5", "U+00D6", "U+00D7", "U+00D8", "U+00D9", "U+00DA",
    "U+00DB", "U+00DC", "U+00DD", "U+00DE", "U+00DF", "U+00E0", "U+00E1", "U+00E2", "U+00E3",
    "U+00E4", "U+00E5", "U+00E6", "U+00E7", "U+00E8", "U+00E9", "U+00EA", "U+00EB", "U+00EC",
    "U+00ED", "U+00EE", "U+00EF", "U+00F0", "U+00F1", "U+00F2", "U+00F3", "U+00F4", "U+00F5",
    "U+00F6", "U+00F7", "U+00F8", "U+00F9", "U+00FA", "U+00FB", "U+00FC", "U+00FD", "U+00FE",
    "U+00FF"}

(***************************************************************************)
(* src/nlp/preprocessing.py                                                *)
(***************************************************************************)
\* normalize_text that leaves the case of the letters alone
normalize_text_keep_case(text, lowercase, remove_extra_spaces) ==
    IF NotText(text) THEN <<>>
    ELSE Strip(IF remove_extra_spaces THEN Join(Split(text)) ELSE text)

normalize_text(text, lowercase, remove_extra_spaces) ==
    IF NotText(text) THEN <<>>
    ELSE LET spaced == IF remove_extra_spaces THEN Join(Split(text)) ELSE text
             cased == IF lowercase THEN Lower(spaced) ELSE spaced
         IN  Strip(cased)

CedillaPlaceholder == <<"#", "#", "#", "C", "E", "D", "I", "L", "L", "A", "#", "#", "#">>

CedillaUpperPlaceholder ==
    <<"#", "#", "#", "C", "E", "D", "I", "L", "L", "A", "_", "U", "P", "P", "E", "R",
      "#", "#", "#">>

StripMarks(s) == SelectSeq(NFD(s), LAMBDA c : c \notin CombiningMarks)

remove_accents(text, keep_cedilla) ==
    IF NotText(text) THEN <<>>
    ELSE IF keep_cedilla
         THEN LET text_with_placeholder ==
                      Replace(Replace(text, <<"U+00E7">>, CedillaPlaceholder),
                              <<"U+00C7">>, CedillaUpperPlaceholder)
                  without_accents == StripMarks(text_with_placeholder)
              IN  Replace(Replace(without_accents, CedillaPlaceholder, <<"U+00E7">>),
                          CedillaUpperPlaceholder, <<"U+00C7">>)
         ELSE StripMarks(text)

\* en dash, em dash, minus sign, hyphen, non-breaking hyphen
DashVariants == {"U+2013", "U+2014", "U+2212", "U+2010", "U+2011"}

normalize_hyphens(text) ==
    IF NotText(text) THEN <<>>
    ELSE [i \in 1..Len(text) |-> IF text[i] \in DashVariants THEN "-" ELSE text[i]]

\* The first argument of the one replace call the function makes: the quote
\* that opens it is closed three source lines further down.
ApostropheLiteral ==
    <<",", " ", "U+0022", "'", "U+0022", ")", " ", " ", "#", " ", "R", "i", "g", "h", "t", " ",
    "s", "i", "n", "g", "l", "e", " ", "q", "u", "o", "t", "a", "t", "i", "o", "n", " ", "m",
    "a", "r", "k", "U+000A", " ", " ", " ", " ", "t", "e", "x", "t", " ", "=", " ", "t", "e",
    "x", "t", ".", "r", "e", "p", "l", "a", "c", "e", "(", "'", "`", "'", ",", " ", "U+0022",
    "'", "U+0022", ")", " ", " ", "#", " ", "G", "r", "a", "v", "e", " ", "a", "c", "c", "e",
    "n", "t", "U+000A", " ", " ", " ", " ", "t", "e", "x", "t", " ", "=", " ", "t", "e", "x",
    "t", ".", "r", "e", "p", "l", "a", "c", "e", "(", "'", "U+00B4", "'", ",", " ", "U+0022",
    "'", "U+0022", ")", " ", " ", "#", " ", "A", "c", "u", "t", "e", " ", "a", "c", "c", "e",
    "n", "t", "U+000A", " ", " ", " ", " ", "t", "e", "x", "t", " ", "=", " ", "t", "e", "x",
    "t", ".", "r", "e", "p", "l", "a", "c", "e", "(">>


normalize_apostrophes(text) ==
    IF NotText(text) THEN <<>>
    ELSE Replace(text, ApostropheLiteral, <<"'">>)

KeptByPattern(c, keep_spaces, keep_hyphens, keep_apostrophes) ==
    \/ c \in AsciiLetters
    \/ c \in Latin1Letters
    \/ c \in Digits
    \/ keep_spaces /\ c \in Whitespace
    \/ keep_hyphens /\ c = "-"
    \/ keep_apostrophes /\ c = "'"

\* remove_non_alphanumeric without the clean-up of spaces that ends it
remove_non_alphanumeric_nocleanup(text, keep_spaces, keep_hyphens, keep_apostrophes) ==
    IF NotText(text) THEN <<>>
    ELSE [i \in 1..Len(text) |->
             IF KeptByPattern(text[i], keep_spaces, keep_hyphens, keep_apostrophes)
             THEN text[i] ELSE " "]

remove_non_alphanumeric(text, keep_spaces, keep_hyphens, keep_apostrophes) ==
    IF NotText(text) THEN <<>>
    ELSE LET subbed == [i \in 1..Len(text) |->
                          IF KeptByPattern(text[i], keep_spaces, keep_hyphens,
                                           keep_apostrophes)
                          THEN text[i] ELSE " "]
         IN  Strip(Join(Split(subbed)))

preprocess_for_matching(text) ==
    IF NotText(text) THEN <<>>
    ELSE LET t1 == normalize_hyphens(text)
             t2 == normalize_apostrophes(t1)
             t3 == remove_accents(t2, TRUE)
             t4 == normalize_text(t3, TRUE, TRUE)
         IN  remove_non_alphanumeric(t4, TRUE, TRUE, TRUE)

\* re.split(r'[-\s]+', name) without the empty components
split_multi_word_name(name) ==
    IF NotText(name) THEN <<>>
    ELSE Split([i \in 1..Len(name) |-> IF name[i] = "-" THEN " " ELSE name[i]])

LowerAlnum == {"a", "b", "c", "d", "e", "f", "g", "h", "i", "j", "k", "l", "m", "n", "o",
               "p", "q", "r", "s", "t", "u", "v", "w", "x", "y", "z"} \cup Digits

fuzzy_normalize(text) ==
    IF NotText(text) THEN <<>>
    ELSE SelectSeq(Lower(remove_accents(text, FALSE)), LAMBDA c : c \in LowerAlnum)

(***************************************************************************)
(* src/nlp/gazetteer.py                                                    *)
(***************************************************************************)
MAJOR_FRENCH_CITIES ==
    <<<<"P", "a", "r", "i", "s">>,
      <<"L", "y", "o", "n">>,
      <<"M", "a", "r", "s", "e", "i", "l", "l", "e">>,
      <<"T", "o", "u", "l", "o", "u", "s", "e">>,
      <<"B", "o", "r", "d", "e", "a", "u", "x">>,
      <<"N", "i", "c", "e">>,
      <<"N", "a", "n", "t", "e", "s">>,
      <<"S", "t", "r", "a", "s", "b", "o", "u", "r", "g">>,
      <<"M", "o", "n", "t", "p", "e", "l", "l", "i", "e", "r">>,
      <<"L", "i", "l", "l", "e">>,
      <<"R", "e", "n", "n", "e", "s">>,
      <<"R", "e", "i", "m", "s">>,
      <<"L", "e", " ", "H", "a", "v", "r", "e">>,
      <<"S", "a", "i", "n", "t", "-", "U+00C9", "t", "i", "e", "n", "n", "e">>,
      <<"T", "o", "u", "l", "o", "n">>,
      <<"G", "r", "e", "n", "o", "b", "l", "e">>,
      <<"D", "i", "j", "o", "n">>,
      <<"A", "n", "g", "e", "r", "s">>,
      <<"N", "U+00EE", "m", "e", "s">>,
      <<"V", "i", "l", "l", "e", "u", "r", "b", "a", "n", "n", "e">>,
      <<"C", "l", "e", "r", "m", "o", "n", "t", "-", "F", "e", "r", "r", "a", "n", "d">>,
      <<"L", "i", "m", "o", "g", "e", "s">>,
      <<"T", "o", "u", "r", "s">>,
      <<"A", "m", "i", "e", "n", "s">>,
      <<"M", "e", "t", "z">>,
      <<"B", "e", "s", "a", "n", "U+00E7", "o", "n">>,
      <<"P", "e", "r", "p", "i", "g", "n", "a", "n">>,
      <<"O", "r", "l", "U+00E9", "a", "n", "s">>,
      <<"B", "r", "e", "s", "t">>,
      <<"M", "u", "l", "h", "o", "u", "s", "e">>,
      <<"C", "a", "e", "n">>,
      <<"B", "o", "u", "l", "o", "g", "n", "e", "-", "B", "i", "l", "l", "a", "n", "c", "o", "u", "r", "t">>,
      <<"R", "o", "u", "e", "n">>,
      <<"N", "a", "n", "c", "y">>,
      <<"A", "r", "g", "e", "n", "t", "e", "u", "i", "l">>,
      <<"S", "a", "i", "n", "t", "-", "D", "e", "n", "i", "s">>,
      <<"M", "o", "n", "t", "r", "e", "u", "i", "l">>,
      <<"R", "o", "u", "b", "a", "i", "x">>,
      <<"A", "v", "i", "g", "n", "o", "n">>,
      <<"T", "o", "u", "r", "c", "o", "i", "n", "g">>,
      <<"P", "o", "i", "t", "i", "e", "r", "s">>,
      <<"N", "a", "n", "t", "e", "r", "r", "e">>,
      <<"C", "r", "U+00E9", "t", "e", "i", "l">>,
      <<"V", "e", "r", "s", "a", "i", "l", "l", "e", "s">>,
      <<"P", "a", "u">>,
      <<"C", "o", "u", "r", "b", "e", "v", "o", "i", "e">>,
      <<"V", "i", "t", "r", "y", "-", "s", "u", "r", "-", "S", "e", "i", "n", "e">>,
      <<"C", "o", "l", "o", "m", "b", "e", "s">>,
      <<"A", "u", "l", "n", "a", "y", "-", "s", "o", "u", "s", "-", "B", "o", "i", "s">>,
      <<"A", "s", "n", "i", "U+00E8", "r", "e", "s", "-", "s", "u", "r", "-", "S", "e", "i", "n", "e">>>>

MULTI_WORD_STATIONS ==
    <<<<"P", "o", "r", "t", "-", "B", "o", "u", "l", "e", "t">>,
      <<"L", "a", " ", "R", "o", "c", "h", "e", "l", "l", "e">>,
      <<"L", "e", " ", "H", "a", "v", "r", "e">>,
      <<"L", "e", " ", "M", "a", "n", "s">>,
      <<"L", "a", " ", "S", "o", "u", "t", "e", "r", "r", "a", "i", "n", "e">>,
      <<"A", "i", "x", "-", "e", "n", "-", "P", "r", "o", "v", "e", "n", "c", "e">>,
      <<"B", "o", "u", "r", "g", "-", "S", "a", "i", "n", "t", "-", "M", "a", "u", "r", "i", "c", "e">>,
      <<"B", "o", "u", "r", "g", "-", "e", "n", "-", "B", "r", "e", "s", "s", "e">>,
      <<"S", "a", "i", "n", "t", "-", "P", "i", "e", "r", "r", "e", "-", "d", "e", "s", "-", "C", "o", "r", "p", "s">>,
      <<"V", "i", "t", "r", "y", "-", "l", "e", "-", "F", "r", "a", "n", "U+00E7", "o", "i", "s">>,
      <<"L", "e", " ", "C", "r", "e", "u", "s", "o", "t">>,
      <<"S", "a", "i", "n", "t", "-", "U+00C9", "t", "i", "e", "n", "n", "e">>,
      <<"S", "a", "i", "n", "t", "-", "N", "a", "z", "a", "i", "r", "e">>,
      <<"S", "a", "i", "n", "t", "-", "M", "a", "l", "o">>,
      <<"S", "a", "i", "n", "t", "-", "B", "r", "i", "e", "u", "c">>,
      <<"A", "i", "x", "-", "l", "e", "s", "-", "B", "a", "i", "n", "s">>,
      <<"C", "h", "U+00E2", "l", "o", "n", "s", "-", "e", "n", "-", "C", "h", "a", "m", "p", "a", "g", "n", "e">>,
      <<"N", "o", "g", "e", "n", "t", "-", "s", "u", "r", "-", "M", "a", "r", "n", "e">>>>

SetMax(S) == CHOOSE x \in S : \A y \in S : y <= x

SetMin(S) == CHOOSE x \in S : \A y \in S : x <= y

\* normalized_to_original is a dict: a list of entries in insertion order,
\* at most one per key.
IndexHas(index, key) == \E i \in 1..Len(index) : index[i].key = key

IndexGet(index, key) == index[CHOOSE i \in 1..Len(index) : index[i].key = key].name

\* a store that keeps the name a key already has
IndexPut_first_wins(index, key, name) ==
    IF IndexHas(index, key) THEN index
    ELSE Append(index, [key |-> key, name |-> name])

\* index[key] = name: an existing key keeps its place, a new one goes last
IndexPut(index, key, name) ==
    IF IndexHas(index, key)
    THEN [i \in 1..Len(index) |->
             IF index[i].key = key THEN [key |-> key, name |-> name] ELSE index[i]]
    ELSE Append(index, [key |-> key, name |-> name])

\* the dict that results from index[preprocess_for_matching(n)] = n for each n
\* of names in turn: one entry per key, placed where the key first came, holding
\* the last name that was stored under it
IndexOf(names) ==
    LET keys == [i \in 1..Len(names) |-> preprocess_for_matching(names[i])]
        firsts == SelectSeq([i \in 1..Len(names) |-> i],
                            LAMBDA i : \A j \in 1..(i - 1) : keys[j] # keys[i])
    IN  [n \in 1..Len(firsts) |->
            [key |-> keys[firsts[n]],
             name |-> names[SetMax({j \in 1..Len(names) : keys[j] = keys[firsts[n]]})]]]

SeqToSet(s) == {s[i] : i \in 1..Len(s)}

\* Gazetteer.__init__ and _load_default_cities
DefaultCities == SeqToSet(MAJOR_FRENCH_CITIES)

DefaultStations == SeqToSet(MULTI_WORD_STATIONS)

DefaultIndex == IndexOf(MAJOR_FRENCH_CITIES \o MULTI_WORD_STATIONS)

\* CITY_ALIASES as the module defines it: misspellings by normalized name
DefaultAliases ==
    (<<"p", "a", "r", "i", "s">> :> <<<<"p", "a", "r", "i", "s">>, <<"p", "a", "r", "i">>, <<"p", "a", "r", "r", "i", "s">>, <<"p", "a", "r", "i", "z">>>>) @@
    (<<"l", "y", "o", "n">> :> <<<<"l", "y", "o", "n">>, <<"l", "y", "o", "n", "s">>, <<"l", "i", "y", "o", "n">>, <<"l", "y", "o", "n", "e">>>>) @@
    (<<"m", "a", "r", "s", "e", "i", "l", "l", "e">> :> <<<<"m", "a", "r", "s", "e", "i", "l", "l", "e">>, <<"m", "a", "r", "c", "e", "i", "l", "l", "e">>, <<"m", "a", "r", "s", "s", "e", "i", "l", "l", "e">>, <<"m", "a", "r", "s", "e", "i", "l", "e">>>>) @@
    (<<"t", "o", "u", "l", "o", "u", "s", "e">> :> <<<<"t", "o", "u", "l", "o", "u", "s", "e">>, <<"t", "o", "l", "o", "u", "s", "e">>, <<"t", "o", "u", "l", "o", "u", "z", "e">>, <<"t", "h", "o", "u", "l", "o", "s", "e">>>>) @@
    (<<"b", "o", "r", "d", "e", "a", "u", "x">> :> <<<<"b", "o", "r", "d", "e", "a", "u", "x">>, <<"b", "o", "r", "d", "o">>, <<"b", "o", "r", "d", "e", "a", "x">>, <<"b", "o", "r", "b", "e", "a", "u", "x">>>>) @@
    (<<"n", "i", "c", "e">> :> <<<<"n", "i", "c", "e">>, <<"n", "i", "s", "e">>, <<"n", "i", "c", "e", "s">>>>) @@
    (<<"l", "i", "l", "l", "e">> :> <<<<"l", "i", "l", "l", "e">>, <<"l", "i", "l", "e">>, <<"l", "i", "l", "l", "e", "s">>>>) @@
    (<<"s", "t", "r", "a", "s", "b", "o", "u", "r", "g">> :> <<<<"s", "t", "r", "a", "s", "b", "o", "u", "r", "g">>, <<"s", "t", "r", "a", "b", "u", "r", "g">>, <<"s", "t", "r", "a", "s", "s", "b", "o", "u", "r", "g">>>>) @@
    (<<"n", "a", "n", "t", "e", "s">> :> <<<<"n", "a", "n", "t", "e", "s">>, <<"n", "a", "n", "t", "e">>, <<"n", "a", "n", "t", "h", "e">>>>) @@
    (<<"m", "o", "n", "t", "p", "e", "l", "l", "i", "e", "r">> :> <<<<"m", "o", "n", "t", "p", "e", "l", "l", "i", "e", "r">>, <<"m", "o", "n", "t", "p", "e", "l", "i", "e", "r">>, <<"m", "o", "n", "t", "p", "e", "l", "l", "i", "U+00E9">>>>)

\* ord(c), for the characters of names: ASCII letters and digits, the space,
\* the apostrophe, the hyphen, the full stop and the Latin-1 letters
CodePoint ==
    (" " :> 32) @@ ("'" :> 39) @@ ("-" :> 45) @@ ("." :> 46) @@ ("0" :> 48) @@ ("1" :> 49) @@
    ("2" :> 50) @@ ("3" :> 51) @@ ("4" :> 52) @@ ("5" :> 53) @@ ("6" :> 54) @@ ("7" :> 55) @@
    ("8" :> 56) @@ ("9" :> 57) @@ ("A" :> 65) @@ ("B" :> 66) @@ ("C" :> 67) @@ ("D" :> 68) @@
    ("E" :> 69) @@ ("F" :> 70) @@ ("G" :> 71) @@ ("H" :> 72) @@ ("I" :> 73) @@ ("J" :> 74) @@
    ("K" :> 75) @@ ("L" :> 76) @@ ("M" :> 77) @@ ("N" :> 78) @@ ("O" :> 79) @@ ("P" :> 80) @@
    ("Q" :> 81) @@ ("R" :> 82) @@ ("S" :> 83) @@ ("T" :> 84) @@ ("U" :> 85) @@ ("V" :> 86) @@
    ("W" :> 87) @@ ("X" :> 88) @@ ("Y" :> 89) @@ ("Z" :> 90) @@ ("a" :> 97) @@ ("b" :> 98) @@
    ("c" :> 99) @@ ("d" :> 100) @@ ("e" :> 101) @@ ("f" :> 102) @@ ("g" :> 103) @@
    ("h" :> 104) @@ ("i" :> 105) @@ ("j" :> 106) @@ ("k" :> 107) @@ ("l" :> 108) @@
    ("m" :> 109) @@ ("n" :> 110) @@ ("o" :> 111) @@ ("p" :> 112) @@ ("q" :> 113) @@
    ("r" :> 114) @@ ("s" :> 115) @@ ("t" :> 116) @@ ("u" :> 117) @@ ("v" :> 118) @@
    ("w" :> 119) @@ ("x" :> 120) @@ ("y" :> 121) @@ ("z" :> 122) @@ ("U+00C0" :> 192) @@
    ("U+00C1" :> 193) @@ ("U+00C2" :> 194) @@ ("U+00C3" :> 195) @@ ("U+00C4" :> 196) @@
    ("U+00C5" :> 197) @@ ("U+00C6" :> 198) @@ ("U+00C7" :> 199) @@ ("U+00C8" :> 200) @@
    ("U+00C9" :> 201) @@ ("U+00CA" :> 202) @@ ("U+00CB" :> 203) @@ ("U+00CC" :> 204) @@
    ("U+00CD" :> 205) @@ ("U+00CE" :> 206) @@ ("U+00CF" :> 207) @@ ("U+00D0" :> 208) @@
    ("U+00D1" :> 209) @@ ("U+00D2" :> 210) @@ ("U+00D3" :> 211) @@ ("U+00D4" :> 212) @@
    ("U+00D5" :> 213) @@ ("U+00D6" :> 214) @@ ("U+00D7" :> 215) @@ ("U+00D8" :> 216) @@
    ("U+00D9" :> 217) @@ ("U+00DA" :> 218) @@ ("U+00DB" :> 219) @@ ("U+00DC" :> 220) @@
    ("U+00DD" :> 221) @@ ("U+00DE" :> 222) @@ ("U+00DF" :> 223) @@ ("U+00E0" :> 224) @@
    ("U+00E1" :> 225) @@ ("U+00E2" :> 226) @@ ("U+00E3" :> 227) @@ ("U+00E4" :> 228) @@
    ("U+00E5" :> 229) @@ ("U+00E6" :> 230) @@ ("U+00E7" :> 231) @@ ("U+00E8" :> 232) @@
    ("U+00E9" :> 233) @@ ("U+00EA" :> 234) @@ ("U+00EB" :> 235) @@ ("U+00EC" :> 236) @@
    ("U+00ED" :> 237) @@ ("U+00EE" :> 238) @@ ("U+00EF" :> 239) @@ ("U+00F0" :> 240) @@
    ("U+00F1" :> 241) @@ ("U+00F2" :> 242) @@ ("U+00F3" :> 243) @@ ("U+00F4" :> 244) @@
    ("U+00F5" :> 245) @@ ("U+00F6" :> 246) @@ ("U+00F7" :> 247) @@ ("U+00F8" :> 248) @@
    ("U+00F9" :> 249) @@ ("U+00FA" :> 250) @@ ("U+00FB" :> 251) @@ ("U+00FC" :> 252) @@
    ("U+00FD" :> 253) @@ ("U+00FE" :> 254) @@ ("U+00FF" :> 255)

\* a < b for two str: the first differing character decides, a proper prefix
\* comes first
StrLess(a, b) ==
    \E i \in 1..Len(b) :
        /\ i <= Len(a) + 1
        /\ SubSeq(a, 1, i - 1) = SubSeq(b, 1, i - 1)
        /\ i = Len(a) + 1 \/ CodePoint[a[i]] < CodePoint[b[i]]

\* sorted(list(names))
sorted(names) ==
    LET rank == [x \in names |-> Cardinality({y \in names : StrLess(y, x)})]
    IN  [i \in 1..Cardinality(names) |-> CHOOSE x \in names : rank[x] = i - 1]

\* the stores that never add a key: only the entries already there change
IndexPutAll_known_keys(index, names) ==
    [n \in 1..Len(index) |->
        IF \E j \in 1..Len(names) : preprocess_for_matching(names[j]) = index[n].key
        THEN [key |-> index[n].key,
              name |-> names[SetMax({j \in 1..Len(names) :
                                        preprocess_for_matching(names[j]) = index[n].key})]]
        ELSE index[n]]

\* index[preprocess_for_matching(n)] = n for each n of names in turn, starting
\* from index: an entry keeps its place and takes the last name stored under
\* its key, the new keys follow in the order they first came
IndexPutAll(index, names) ==
    LET keys == [i \in 1..Len(names) |-> preprocess_for_matching(names[i])]
        last == [i \in 1..Len(names) |->
                    names[SetMax({j \in 1..Len(names) : keys[j] = keys[i]})]]
        firsts == SelectSeq([i \in 1..Len(names) |-> i],
                            LAMBDA i : /\ ~IndexHas(index, keys[i])
                                       /\ \A j \in 1..(i - 1) : keys[j] # keys[i])
    IN  [n \in 1..Len(index) |->
            IF \E j \in 1..Len(names) : keys[j] = index[n].key
            THEN [key |-> index[n].key,
                  name |-> last[CHOOSE j \in 1..Len(names) : keys[j] = index[n].key]]
            ELSE index[n]]
        \o [n \in 1..Len(firsts) |-> [key |-> keys[firsts[n]], name |-> last[firsts[n]]]]

\* the contents a file can have: none, a text that is no JSON document and
\* has no CSV column of cities, a JSON bundle, a CSV table
Missing == [kind |-> "missing"]

NotJson == [kind |-> "text"]

JsonBundle(cs, ss, as) == [kind |-> "json", cities |-> cs, stations |-> ss, aliases |-> as]

CsvTable(column, rows) == [kind |-> "csv", column |-> column, rows |-> rows]

\* dict.update: the keys of new are bound to the lists of new
Update(table, new) ==
    [k \in DOMAIN table \cup DOMAIN new |-> IF k \in DOMAIN new THEN new[k] ELSE table[k]]

\* a Gazetteer as a value
Instance(cs, ss, as, det, index) ==
    [cities |-> cs, stations |-> ss, aliases |-> as, detached |-> det,
     normalized_to_original |-> index]

\* load_from_json that parses late: the names it held are dropped before the
\* file is looked at
load_from_json_clearing_first(g, content) ==
    IF content.kind = "json"
    THEN [raises |-> "",
          gazetteer |->
              Instance(g.cities \cup SeqToSet(content.cities),
                       g.stations \cup SeqToSet(content.stations),
                       Update(g.aliases, content.aliases),
                       g.detached \cup DOMAIN content.aliases,
                       IndexPutAll(g.normalized_to_original,
                                   content.cities \o content.stations))]
    ELSE [raises |-> IF content.kind = "missing" THEN "FileNotFoundError"
                     ELSE "JSONDecodeError",
          gazetteer |-> Instance({}, {}, g.aliases, g.detached, <<>>)]

\* load_from_json on the gazetteer g and a file of the given content: the
\* exception raised ("" if none) and the gazetteer after the call.  A key the
\* bundle lacks loads nothing and is an empty list or table here.
load_from_json(g, content) ==
    IF content.kind = "missing" THEN [raises |-> "FileNotFoundError", gazetteer |-> g]
    ELSE IF content.kind # "json" THEN [raises |-> "JSONDecodeError", gazetteer |-> g]
    ELSE [raises |-> "",
          gazetteer |->
              Instance(g.cities \cup SeqToSet(content.cities),
                       g.stations \cup SeqToSet(content.stations),
                       Update(g.aliases, content.aliases),
                       g.detached \cup DOMAIN content.aliases,
                       IndexPutAll(g.normalized_to_original,
                                   content.cities \o content.stations))]

\* load_from_csv: add_city for the city column of every row; a file without
\* that column adds nothing
load_from_csv(g, content, city_column) ==
    IF content.kind = "missing" THEN [raises |-> "FileNotFoundError", gazetteer |-> g]
    ELSE IF content.kind = "csv" /\ content.column = city_column
    THEN [raises |-> "",
          gazetteer |->
              Instance(g.cities \cup SeqToSet(content.rows), g.stations, g.aliases,
                       g.detached, IndexPutAll(g.normalized_to_original, content.rows))]
    ELSE [raises |-> "", gazetteer |-> g]

\* the JSON document save_to_json writes
save_to_json(g) == JsonBundle(sorted(g.cities), sorted(g.stations), g.aliases)

RECURSIVE SumLen(_, _)
SumLen(table, keys) ==
    IF keys = {} THEN 0
    ELSE LET k == CHOOSE x \in keys : TRUE
         IN  Len(table[k]) + SumLen(table, keys \ {k})

get_stats(g) ==
    [cities |-> Cardinality(g.cities), stations |-> Cardinality(g.stations),
     total_locations |-> Len(g.normalized_to_original),
     aliases |-> SumLen(g.aliases, DOMAIN g.aliases)]

is_valid_location(index, name) == IndexHas(index, preprocess_for_matching(name))

get_canonical_name(index, name) ==
    LET normalized == preprocess_for_matching(name)
    IN  IF IndexHas(index, normalized) THEN IndexGet(index, normalized) ELSE PyNone

\* len(gazetteer)
GazetteerLen(index) == Len(index)

DefaultMinLength == 3

\* the phrases find_matches looks up, in scan order: the single words of at
\* least min_length characters, then every window of 2, 3 and 4 words
Windows(words, length) ==
    IF Len(words) < length THEN <<>>
    ELSE [i \in 1..(Len(words) - length + 1) |-> Join(SubSeq(words, i, i + length - 1))]

\* a scan that looks up the windows before the single words
ScanOrder_windows_first(words, min_length) ==
    Windows(words, 2) \o Windows(words, 3) \o Windows(words, 4)
        \o SelectSeq(words, LAMBDA w : Len(w) >= min_length)

ScanOrder(words, min_length) ==
    SelectSeq(words, LAMBDA w : Len(w) >= min_length)
        \o Windows(words, 2) \o Windows(words, 3) \o Windows(words, 4)

\* the scan without its `canonical not in matches` test
RECURSIVE CollectMatches_with_duplicates(_, _, _)
CollectMatches_with_duplicates(index, phrases, matches) ==
    IF phrases = <<>> THEN matches
    ELSE CollectMatches_with_duplicates(
             index, Tail(phrases),
             IF IndexHas(index, Head(phrases))
             THEN Append(matches, IndexGet(index, Head(phrases)))
             ELSE matches)

RECURSIVE CollectMatches(_, _, _)
CollectMatches(index, phrases, matches) ==
    IF phrases = <<>> THEN matches
    ELSE LET phrase == Head(phrases)
             found == IndexHas(index, phrase) /\ ~InList(IndexGet(index, phrase), matches)
         IN  CollectMatches(index, Tail(phrases),
                            IF found THEN Append(matches, IndexGet(index, phrase))
                            ELSE matches)

find_matches(index, text, min_length) ==
    LET text_normalized == preprocess_for_matching(text)
        words == Split(text_normalized)
    IN  CollectMatches(index, ScanOrder(words, min_length), <<>>)

\* difflib.SequenceMatcher(None, a, b): the length of the common prefix of
\* a[i..] and b[j..]
RECURSIVE CommonPrefix(_, _, _, _)
CommonPrefix(a, i, b, j) ==
    IF i > Len(a) \/ j > Len(b) \/ a[i] # b[j] THEN 0
    ELSE 1 + CommonPrefix(a, i + 1, b, j + 1)

\* find_longest_match: the longest block, leftmost in a, then leftmost in b
LongestMatch(a, b) ==
    LET size == [i \in 1..Len(a), j \in 1..Len(b) |-> CommonPrefix(a, i, b, j)]
        k == SetMax({size[i, j] : i \in 1..Len(a), j \in 1..Len(b)})
        i0 == SetMin({i \in 1..Len(a) : \E j \in 1..Len(b) : size[i, j] = k})
        j0 == SetMin({j \in 1..Len(b) : size[i0, j] = k})
    IN  <<i0, j0, k>>

\* the sum of the sizes of get_matching_blocks
RECURSIVE MatchingSize(_, _)
MatchingSize(a, b) ==
    IF a = <<>> \/ b = <<>> THEN 0
    ELSE LET m == LongestMatch(a, b)
         IN  IF m[3] = 0 THEN 0
             ELSE m[3]
                  + MatchingSize(SubSeq(a, 1, m[1] - 1), SubSeq(b, 1, m[2] - 1))
                  + MatchingSize(SubSeq(a, m[1] + m[3], Len(a)),
                                 SubSeq(b, m[2] + m[3], Len(b)))

\* a cut-off at 0.5
SimilarEnough_half(m, t) == t = 0 \/ 4 * m > t

\* ratio() is 2.0 * matches / length (1.0 when both are empty), a double;
\* `similarity > 0.7` with similarity = 2m/t
SimilarEnough(m, t) == t = 0 \/ 20 * m > 7 * t

DistanceScale == 10

\* int((1 - similarity) * 10) in double arithmetic: the product falls just
\* short of 1 at similarity 0.9 and just short of 2 at similarity 0.8
Distance(m, t) ==
    IF t = 0 THEN 0
    ELSE IF 20 * m = 9 * t \/ 5 * m = 2 * t
         THEN (DistanceScale * (t - 2 * m)) \div t - 1
         ELSE (DistanceScale * (t - 2 * m)) \div t


\* the candidates left in index order
SortByDistance_unsorted(matches) == matches

\* list.sort(key = distance) is stable
SortByDistance(matches) ==
    Flatten([d \in 1..(DistanceScale + 1) |->
                SelectSeq(matches, LAMBDA x : x.distance = d - 1)])

RECURSIVE FuzzyCandidates(_, _, _)
FuzzyCandidates(index, fuzzy, i) ==
    IF i > Len(index) THEN <<>>
    ELSE LET other == fuzzy_normalize(index[i].key)
             m == MatchingSize(fuzzy, other)
             t == Len(fuzzy) + Len(other)
         IN  (IF SimilarEnough(m, t)
              THEN <<[name |-> index[i].name, distance |-> Distance(m, t)]>>
              ELSE <<>>) \o FuzzyCandidates(index, fuzzy, i + 1)

fuzzy_match(index, name, max_distance) ==
    LET fuzzy == fuzzy_normalize(name)
        matches == SortByDistance(FuzzyCandidates(index, fuzzy, 1))
    IN  SelectSeq(matches, LAMBDA x : x.distance <= max_distance)

(***************************************************************************)
(* src/nlp/baseline.py                                                     *)
(***************************************************************************)
ORIGIN_KEYWORDS ==
    <<<<"d", "e">>,
      <<"d", "e", "p", "u", "i", "s">>,
      <<"e", "n", " ", "p", "a", "r", "t", "a", "n", "c", "e", " ", "d", "e">>,
      <<"a", "u", " ", "d", "U+00E9", "p", "a", "r", "t", " ", "d", "e">>,
      <<"e", "n", " ", "p", "a", "r", "t", "a", "n", "t", " ", "d", "e">>,
      <<"U+00E0", " ", "p", "a", "r", "t", "i", "r", " ", "d", "e">>,
      <<"d", "U+00E9", "p", "a", "r", "t">>>>

DESTINATION_KEYWORDS ==
    <<<<"U+00E0">>,
      <<"v", "e", "r", "s">>,
      <<"p", "o", "u", "r">>,
      <<"j", "u", "s", "q", "u", "'", "U+00E0">>,
      <<"e", "n", " ", "d", "i", "r", "e", "c", "t", "i", "o", "n", " ", "d", "e">>,
      <<"d", "i", "r", "e", "c", "t", "i", "o", "n">>,
      <<"a", "r", "r", "i", "v", "U+00E9", "e">>>>

TRAVEL_VERBS ==
    <<<<"a", "l", "l", "e", "r">>,
      <<"p", "a", "r", "t", "i", "r">>,
      <<"v", "o", "y", "a", "g", "e", "r">>,
      <<"r", "e", "n", "d", "r", "e">>,
      <<"d", "U+00E9", "p", "l", "a", "c", "e", "r">>,
      <<"v", "e", "u", "x">>,
      <<"v", "o", "u", "d", "r", "a", "i", "s">>,
      <<"s", "o", "u", "h", "a", "i", "t", "e">>,
      <<"a", "i", "m", "e", "r", "a", "i", "s">>,
      <<"d", "o", "i", "s">>>>

INVALID_INDICATORS ==
    <<<<"q", "u", "e", "l", " ", "t", "e", "m", "p", "s">>,
      <<"q", "u", "e", "l", "l", "e", " ", "h", "e", "u", "r", "e">>,
      <<"c", "o", "m", "m", "e", "n", "t", " ", "a", "l", "l", "e", "z">>,
      <<"b", "o", "n", "j", "o", "u", "r">>,
      <<"b", "o", "n", "s", "o", "i", "r">>,
      <<"m", "e", "r", "c", "i">>,
      <<"a", "z", "e", "r", "t", "y">>>>

\* Python truthiness of an Optional[str]
Truthy(v) == v # PyNone /\ v # <<>>

\* b or a: the operands of `or` taken in the other order
Or_second_first(a, b) == IF Truthy(b) THEN b ELSE a

\* a or b
Or(a, b) == IF Truthy(a) THEN a ELSE b

is_valid_order(index, text) ==
    LET text_normalized == preprocess_for_matching(text)
        locations == find_matches(index, text_normalized, DefaultMinLength)
        keywords == ORIGIN_KEYWORDS \o DESTINATION_KEYWORDS \o TRAVEL_VERBS
        has_travel_keyword ==
            \E k \in 1..Len(keywords) : IsSubstring(keywords[k], text_normalized)
    IN  IF \E k \in 1..Len(INVALID_INDICATORS) :
                IsSubstring(INVALID_INDICATORS[k], text_normalized)
        THEN FALSE
        ELSE IF Len(locations) = 0 THEN FALSE
        ELSE has_travel_keyword \/ Len(locations) >= 2

OriginTokens == {<<"d", "e">>, <<"d", "e", "p", "u", "i", "s">>}

DestinationTokens == {<<"a">>, <<"v", "e", "r", "s">>, <<"p", "o", "u", "r">>}

\* the inner for loop: the first location of the list whose normalized form
\* is a substring of the remaining text
FirstLocationIn(all_locations, remaining_text) ==
    LET hits == {k \in 1..Len(all_locations) :
                    IsSubstring(preprocess_for_matching(all_locations[k]), remaining_text)}
    IN  IF hits = {} THEN PyNone ELSE all_locations[SetMin(hits)]

\* the scan without its `and not origin` / `and not destination` tests: a
\* later keyword overwrites the role
RECURSIVE KeywordScan_overwriting(_, _, _, _, _)
KeywordScan_overwriting(tokens, i, all_locations, origin, destination) ==
    IF i > Len(tokens) THEN <<origin, destination>>
    ELSE LET found == FirstLocationIn(all_locations,
                                      Join(SubSeq(tokens, i + 1, Len(tokens))))
         IN  KeywordScan_overwriting(
                 tokens, i + 1, all_locations,
                 IF tokens[i] \in OriginTokens /\ i < Len(tokens) /\ found # PyNone
                 THEN found ELSE origin,
                 IF tokens[i] \in DestinationTokens /\ i < Len(tokens) /\ found # PyNone
                 THEN found ELSE destination)

RECURSIVE KeywordScan(_, _, _, _, _)
KeywordScan(tokens, i, all_locations, origin, destination) ==
    IF i > Len(tokens) THEN <<origin, destination>>
    ELSE LET remaining_text == Join(SubSeq(tokens, i + 1, Len(tokens)))
             found == FirstLocationIn(all_locations, remaining_text)
             origin2 == IF tokens[i] \in OriginTokens /\ i < Len(tokens)
                           /\ ~Truthy(origin) /\ found # PyNone
                        THEN found ELSE origin
             destination2 == IF tokens[i] \in DestinationTokens /\ i < Len(tokens)
                                /\ ~Truthy(destination) /\ found # PyNone
                             THEN found ELSE destination
         IN  KeywordScan(tokens, i + 1, all_locations, origin2, destination2)

extract_with_keywords(index, text) ==
    LET text_normalized == preprocess_for_matching(text)
        tokens == Split(text_normalized)
        all_locations == find_matches(index, text_normalized, DefaultMinLength)
    IN  IF Len(all_locations) = 0 THEN <<PyNone, PyNone>>
        ELSE KeywordScan(tokens, 1, all_locations, PyNone, PyNone)

\* a heuristic that answers only when it has two locations
extract_heuristic_pairs_only(index, text) ==
    LET text_normalized == preprocess_for_matching(text)
        locations == find_matches(index, text_normalized, DefaultMinLength)
    IN  IF Len(locations) < 2 THEN <<PyNone, PyNone>>
        ELSE <<locations[1], locations[Len(locations)]>>

extract_heuristic(index, text) ==
    LET text_normalized == preprocess_for_matching(text)
        locations == find_matches(index, text_normalized, DefaultMinLength)
        loc_normalized == preprocess_for_matching(locations[1])
        preceded(kws) ==
            \E kw \in kws : IsSubstring(kw \o <<" ">> \o loc_normalized, text_normalized)
    IN  IF Len(locations) = 0 THEN <<PyNone, PyNone>>
        ELSE IF Len(locations) = 1
        THEN IF preceded(DestinationTokens) THEN <<PyNone, locations[1]>>
             ELSE IF preceded(OriginTokens) THEN <<locations[1], PyNone>>
             ELSE <<PyNone, locations[1]>>
        ELSE <<locations[1], locations[Len(locations)]>>

Billet == <<"b", "i", "l", "l", "e", "t">>

Ticket == <<"t", "i", "c", "k", "e", "t">>

extract_direct_format(index, text) ==
    LET text_normalized == preprocess_for_matching(text)
        locations == find_matches(index, text_normalized, DefaultMinLength)
    IN  IF (IsSubstring(Billet, text_normalized) \/ IsSubstring(Ticket, text_normalized))
           /\ Len(locations) >= 2
        THEN <<locations[1], locations[2]>>
        ELSE <<PyNone, PyNone>>

\* a result dict whose valid flag is always set
Outcome_always_valid(origin, destination, valid, method) ==
    [origin |-> origin, destination |-> destination, valid |-> TRUE, method |-> method]

Outcome(origin, destination, valid, method) ==
    [origin |-> origin, destination |-> destination, valid |-> valid, method |-> method]

\* the three strategies combined, with the direct format tried before the
\* keywords
Combine_direct_first(kw, direct, heur) ==
    IF Truthy(direct[1]) /\ Truthy(direct[2])
    THEN Outcome(direct[1], direct[2], TRUE, "direct_format")
    ELSE IF Truthy(kw[1]) /\ Truthy(kw[2])
    THEN Outcome(kw[1], kw[2], TRUE, "keywords")
    ELSE IF Truthy(Or(Or(kw[1], direct[1]), heur[1]))
            \/ Truthy(Or(Or(kw[2], direct[2]), heur[2]))
    THEN Outcome(Or(Or(kw[1], direct[1]), heur[1]), Or(Or(kw[2], direct[2]), heur[2]),
                 TRUE, "heuristic")
    ELSE Outcome(PyNone, PyNone, FALSE, "failed")

\* extract after the validity check: kw, direct and heur are the pairs of
\* extract_with_keywords, extract_direct_format and extract_heuristic
Combine(kw, direct, heur) ==
    IF Truthy(kw[1]) /\ Truthy(kw[2])
    THEN Outcome(kw[1], kw[2], TRUE, "keywords")
    ELSE IF Truthy(direct[1]) /\ Truthy(direct[2])
    THEN Outcome(direct[1], direct[2], TRUE, "direct_format")
    ELSE IF Truthy(Or(Or(kw[1], direct[1]), heur[1]))
            \/ Truthy(Or(Or(kw[2], direct[2]), heur[2]))
    THEN Outcome(Or(Or(kw[1], direct[1]), heur[1]), Or(Or(kw[2], direct[2]), heur[2]),
                 TRUE, "heuristic")
    ELSE Outcome(PyNone, PyNone, FALSE, "failed")

extract(index, text) ==
    IF ~is_valid_order(index, text)
    THEN Outcome(PyNone, PyNone, FALSE, "invalid")
    ELSE Combine(extract_with_keywords(index, text),
                 extract_direct_format(index, text),
                 extract_heuristic(index, text))

(***************************************************************************)
(* The program as a state machine: one Gazetteer, one BaselineExtractor    *)
(* that reads it, and a caller that invokes one operation at a time.       *)
(* pc is the caller's position; op, arg, raised and result describe the    *)
(* call that has just returned.                                            *)
(***************************************************************************)
\* A call raises when a value that is no str gets past the guard and reaches
\* a str method (text.replace, text.split, ...).
\* result['sentence_id'] = sentence_id; result['sentence'] = sentence
WithSentence(res, sentence_id, sentence) ==
    [origin |-> res.origin, destination |-> res.destination, valid |-> res.valid,
     method |-> res.method, sentence_id |-> sentence_id, sentence |-> sentence]

process_sentence(index, sentence_id, sentence) ==
    WithSentence(extract(index, sentence), sentence_id, sentence)

\* the loop that puts each new result in front of the earlier ones
RECURSIVE BatchLoop_prepending(_, _, _, _)
BatchLoop_prepending(index, sentences, i, results) ==
    IF i > Len(sentences) THEN results
    ELSE BatchLoop_prepending(index, sentences, i + 1,
             <<process_sentence(index, sentences[i][1], sentences[i][2])>> \o results)

\* for sentence_id, sentence in sentences: results.append(process_sentence(...))
RECURSIVE BatchLoop(_, _, _, _)
BatchLoop(index, sentences, i, results) ==
    IF i > Len(sentences) THEN results
    ELSE BatchLoop(index, sentences, i + 1,
             Append(results, process_sentence(index, sentences[i][1], sentences[i][2])))

process_batch(index, sentences) == BatchLoop(index, sentences, 1, <<>>)

INVALID == <<"I", "N", "V", "A", "L", "I", "D">>

\* the line with an absent role left empty
format_output_csv_blank(res) ==
    res.sentence_id \o <<",">>
        \o (IF Truthy(res.origin) THEN res.origin ELSE <<>>) \o <<",">>
        \o (IF Truthy(res.destination) THEN res.destination ELSE <<>>)

\* f"{sentence_id},{origin},{destination}"
format_output_csv(res) ==
    res.sentence_id \o <<",">>
        \o (IF Truthy(res.origin) THEN res.origin ELSE INVALID) \o <<",">>
        \o (IF Truthy(res.destination) THEN res.destination ELSE INVALID)

Raises(v) == ~NotText(v) /\ ~IsStr(v)

NoResult == PyNone

MaxWords == 4

\* de, à, and two locations, the first a prefix of the second
Vocabulary ==
    {<<"d", "e">>, <<"U+00E0">>, <<"N", "a", "n", "t", "e">>,
     <<"N", "a", "n", "t", "e", "s">>}

Sentences == {Join(ws) : ws \in UNION {[1..k -> Vocabulary] : k \in 0..MaxWords}}

\* the sentences of the demo and of the tests, edge cases, None and an int
SpecialTexts ==
    {<<>>,
     <<"?", "!">>,
     <<"a", "z", "e", "r", "t", "y", " ", "q", "w", "e", "r", "t", "y">>,
     <<"J", "e", " ", "p", "a", "r", "s", " ", "d", "e", "m", "a", "i", "n">>,
     <<"Q", "u", "e", "l", " ", "t", "e", "m", "p", "s", " ", "f", "a", "i", "t", "-", "i", "l", " ", "U+00E0", " ", "P", "a", "r", "i", "s", "?">>,
     <<"J", "e", " ", "v", "e", "u", "x", " ", "a", "l", "l", "e", "r", " ", "d", "e", " ", "P", "a", "r", "i", "s", " ", "U+00E0", " ", "L", "y", "o", "n">>,
     <<"J", "e", " ", "v", "o", "u", "d", "r", "a", "i", "s", " ", "u", "n", " ", "b", "i", "l", "l", "e", "t", " ", "B", "o", "r", "d", "e", "a", "u", "x", " ", "N", "i", "c", "e">>,
     <<"b", "i", "l", "l", "e", "t", " ", "d", "e", " ", "P", "a", "r", "i", "s", " ", "U+00E0", " ", "L", "y", "o", "n">>,
     <<"b", "i", "l", "l", "e", "t", "s", " ", "P", "a", "r", "i", "s", " ", "L", "y", "o", "n">>,
     <<"J", "e", " ", "v", "a", "i", "s", " ", "U+00E0", " ", "P", "a", "r", "i", "s">>,
     <<"B", "o", "r", "d", "e", "a", "u", "x">>,
     <<"P", "a", "r", "i", "s", " ", "L", "y", "o", "n">>,
     <<"T", "r", "a", "i", "n", " ", "p", "o", "u", "r", " ", "M", "a", "r", "s", "e", "i", "l", "l", "e", " ", "d", "e", "p", "u", "i", "s", " ", "T", "o", "u", "l", "o", "u", "s", "e">>,
     <<"P", "o", "r", "t", "-", "B", "o", "u", "l", "e", "t", " ", "v", "e", "r", "s", " ", "L", "a", " ", "R", "o", "c", "h", "e", "l", "l", "e">>,
     <<"J", "e", " ", "d", "e", "m", "a", "n", "d", "e", " ", "P", "a", "r", "i", "s">>,
     PyNone,
     PyInt}

Texts == Sentences \cup SpecialTexts

\* names a caller registers on top of the default ones
AddNames == {<<"N", "a", "n", "t", "e">>}

\* a bundle like the one of test_load_gazetteer_with_file, with an alias list
\* for a key the defaults have
ExtraBundle ==
    JsonBundle(<<<<"N", "a", "n", "t", "e">>>>, <<<<"S", "U+00E8", "t", "e">>>>,
               (<<"p", "a", "r", "i", "s">> :> <<<<"p", "a", "r", "e", "e">>>>))

\* the files on disk when the program starts
Disk ==
    ("nonexistent_file.json" :> Missing) @@ ("broken.json" :> NotJson)
        @@ ("extra.json" :> ExtraBundle)
        @@ ("cities.csv" :> CsvTable("city", <<<<"P", "a", "r", "i", "s">>, <<"N", "a", "n", "t", "e">>>>))
        @@ ("saved.json" :> Missing)

Init ==
    /\ cities = DefaultCities
    /\ stations = DefaultStations
    /\ normalized_to_original = DefaultIndex
    /\ aliases = DefaultAliases
    /\ detached = {}
    /\ CITY_ALIASES = DefaultAliases
    /\ files = Disk
    /\ pc = "idle"
    /\ op = "none"
    /\ arg = PyNone
    /\ raised = FALSE
    /\ result = NoResult

add_city(city_name) ==
    /\ pc = "idle"
    /\ cities' = cities \cup {city_name}
    /\ normalized_to_original' =
           IndexPut(normalized_to_original, preprocess_for_matching(city_name), city_name)
    /\ UNCHANGED <<stations, aliases, detached, world, pc, op, arg, raised, result>>

add_station(station_name) ==
    /\ pc = "idle"
    /\ stations' = stations \cup {station_name}
    /\ normalized_to_original' =
           IndexPut(normalized_to_original, preprocess_for_matching(station_name),
                    station_name)
    /\ UNCHANGED <<cities, aliases, detached, world, pc, op, arg, raised, result>>

\* a read that keeps what it was asked among the cities
Returns_remembering(name, v, value) ==
    /\ pc = "idle"
    /\ pc' = "done"
    /\ op' = name
    /\ arg' = v
    /\ raised' = Raises(v)
    /\ result' = IF Raises(v) THEN NoResult ELSE value
    /\ cities' = cities \cup {v}
    /\ UNCHANGED <<stations, aliases, detached, normalized_to_original, world>>

\* a read operation called with v, returning value unless it raises
Returns(name, v, value) ==
    /\ pc = "idle"
    /\ pc' = "done"
    /\ op' = name
    /\ arg' = v
    /\ raised' = Raises(v)
    /\ result' = IF Raises(v) THEN NoResult ELSE value
    /\ UNCHANGED <<gaz, world>>

Extract(t) == Returns("extract", t, extract(normalized_to_original, t))

IsValidOrder(t) == Returns("is_valid_order", t, is_valid_order(normalized_to_original, t))

ExtractWithKeywords(t) ==
    Returns("extract_with_keywords", t, extract_with_keywords(normalized_to_original, t))

ExtractDirectFormat(t) ==
    Returns("extract_direct_format", t, extract_direct_format(normalized_to_original, t))

ExtractHeuristic(t) ==
    Returns("extract_heuristic", t, extract_heuristic(normalized_to_original, t))

\* the caller takes the result and is ready for the next call
Return ==
    /\ pc = "done"
    /\ pc' = "idle"
    /\ op' = "none"
    /\ arg' = PyNone
    /\ raised' = FALSE
    /\ result' = NoResult
    /\ UNCHANGED <<gaz, world>>

Next ==
    \/ \E n \in AddNames : add_city(n)
    \/ \E t \in Texts : Extract(t)
    \/ \E t \in Texts : IsValidOrder(t)
    \/ \E t \in Texts : ExtractWithKeywords(t)
    \/ \E t \in Texts : ExtractDirectFormat(t)
    \/ \E t \in Texts : ExtractHeuristic(t)
    \/ Return

Spec == Init /\ [][Next]_vars

(***************************************************************************)
(* Calls of preprocess_for_matching                                        *)
(***************************************************************************)
MaxLen == 3

\* letters in both cases, with an accent, with a cedilla, the separators, a
\* combining accent, punctuation and the character of the placeholders
Alphabet ==
    {"a", "A", "U+00C9", "U+00E7", "U+00C7", " ", "-", "U+2013", "'", "?", "#", "U+0301"}

Strings == UNION {[1..k -> Alphabet] : k \in 0..MaxLen}

PlaceholderTexts ==
    {CedillaPlaceholder, CedillaUpperPlaceholder, Lower(CedillaPlaceholder),
     <<"a">> \o CedillaPlaceholder \o <<"U+00E7", " ">> \o CedillaUpperPlaceholder}

PreTexts == Strings \cup SpecialTexts \cup PlaceholderTexts

PreprocessForMatching(t) ==
    Returns("preprocess_for_matching", t, preprocess_for_matching(t))

NextPre ==
    \/ \E t \in PreTexts : PreprocessForMatching(t)
    \/ Return

SpecPre == Init /\ [][NextPre]_vars

(***************************************************************************)
(* Calls of the gazetteer                                                  *)
(***************************************************************************)
NewStations == {<<"S", "U+00E8", "t", "e">>}

JoinWith(words, sep) ==
    Flatten([i \in 1..Len(words) |-> IF i = 1 THEN words[i] ELSE <<sep>> \o words[i]])

\* hyphen, en dash, space
Separators == {"-", "U+2013", " "}

MentionLeads == {<<>>, <<"C", "o", "m", "m", "e", "n", "t", " ", "a", "l", "l", "e", "r", " ", "U+00E0", " ">>}

MultiWordNames ==
    {n \in DefaultCities \cup DefaultStations : Len(split_multi_word_name(n)) > 1}

\* every multi-word name of the default gazetteer, written with each separator
Mentions ==
    {lead \o JoinWith(split_multi_word_name(n), sep) :
        lead \in MentionLeads, n \in MultiWordNames, sep \in Separators}

MentionVocabulary ==
    {<<"P", "a", "r", "i", "s">>, <<"P", "A", "R", "I", "S">>, <<"L", "e">>, <<"H", "a", "v", "r", "e">>}

\* sentences that name a location several times, as one word or as two
RepeatedMentions ==
    {Join(ws) : ws \in UNION {[1..k -> MentionVocabulary] : k \in 0..MaxWords}}
        \cup {<<"D", "e", " ", "P", "a", "r", "i", "s", " ", "U+00E0", " ", "L", "y", "o", "n", " ", "p", "u", "i", "s", " ", "r", "e", "t", "o", "u", "r", " ", "U+00E0", " ", "P", "a", "r", "i", "s">>}

\* spellings of registered and of unknown names
NameVariants ==
    {<<"S", "U+00E8", "t", "e">>,
     <<"s", "U+00E8", "t", "e">>,
     <<"S", "e", "t", "e">>,
     <<"S", "E", "T", "E">>,
     <<"S", "e", "U+0300", "t", "e">>,
     <<"B", "e", "s", "a", "n", "U+00E7", "o", "n">>,
     <<"b", "e", "s", "a", "n", "U+00E7", "o", "n">>,
     <<"B", "E", "S", "A", "N", "U+00C7", "O", "N">>,
     <<"B", "e", "s", "a", "n", "c", "o", "n">>,
     <<"P", "a", "r", "i", "s">>,
     <<"P", "A", "R", "I", "S">>,
     <<"P", "a", "R", "i", "S">>,
     <<"p", "a", "r", "i", "s">>,
     <<"S", "a", "i", "n", "t", "-", "U+00C9", "t", "i", "e", "n", "n", "e">>,
     <<"s", "a", "i", "n", "t", "-", "e", "t", "i", "e", "n", "n", "e">>,
     <<"S", "A", "I", "N", "T", "-", "E", "T", "I", "E", "N", "N", "E">>,
     <<"S", "a", "i", "n", "t", "-", "E", "t", "i", "e", "n", "n", "e">>,
     <<"L", "e", " ", "H", "a", "v", "r", "e">>,
     <<"l", "e", " ", "h", "a", "v", "r", "e">>,
     <<"L", "E", " ", "H", "A", "V", "R", "E">>,
     <<"N", "U+00EE", "m", "e", "s">>,
     <<"N", "i", "m", "e", "s">>,
     <<"N", "I", "M", "E", "S">>,
     <<"V", "i", "t", "r", "y", "-", "l", "e", "-", "F", "r", "a", "n", "U+00E7", "o", "i", "s">>,
     <<"v", "i", "t", "r", "y", "-", "l", "e", "-", "f", "r", "a", "n", "U+00E7", "o", "i", "s">>,
     <<"V", "i", "t", "r", "y", "-", "l", "e", "-", "F", "r", "a", "n", "c", "o", "i", "s">>,
     <<"O", "r", "l", "U+00E9", "a", "n", "s">>,
     <<"o", "r", "l", "e", "a", "n", "s">>,
     <<"G", "o", "t", "h", "a", "m">>,
     <<"G", "O", "T", "H", "A", "M">>,
     <<"N", "a", "n", "t", "e">>,
     <<"n", "a", "n", "t", "e">>}

FuzzyNames ==
    {<<"P", "a", "r", "i", "s">>,
     <<"P", "a", "r", "r", "i", "s">>,
     <<"L", "y", "o", "n">>,
     <<"N", "a", "n", "t", "e">>,
     <<"N", "a", "n", "t", "e", "s">>,
     <<"G", "o", "t", "h", "a", "m">>,
     <<"P", "o", "r", "t", "-", "B", "o", "u", "l", "e", "t">>,
     <<"S", "U+00E8", "t", "e">>}

\* max_distance: an exact match only, the default, and the values of the demo
\* and of test_fuzzy_match_sorted_by_distance
FuzzyDistances == {0, 2, 3, 5}

FindMatches(t) ==
    Returns("find_matches", t, find_matches(normalized_to_original, t, DefaultMinLength))

IsValidLocation(n) ==
    Returns("is_valid_location", n, is_valid_location(normalized_to_original, n))

GetCanonicalName(n) ==
    Returns("get_canonical_name", n, get_canonical_name(normalized_to_original, n))

FuzzyMatch(n, d) ==
    /\ pc = "idle"
    /\ pc' = "done"
    /\ op' = "fuzzy_match"
    /\ arg' = [name |-> n, max_distance |-> d]
    /\ raised' = Raises(n)
    /\ result' = IF Raises(n) THEN NoResult
                 ELSE fuzzy_match(normalized_to_original, n, d)
    /\ UNCHANGED <<gaz, world>>

NextGaz ==
    \/ \E n \in AddNames : add_city(n)
    \/ \E n \in NewStations : add_station(n)
    \/ \E t \in Mentions \cup RepeatedMentions : FindMatches(t)
    \/ \E n \in NameVariants : IsValidLocation(n)
    \/ \E n \in NameVariants : GetCanonicalName(n)
    \/ \E n \in FuzzyNames : \E d \in FuzzyDistances : FuzzyMatch(n, d)
    \/ Return

SpecGaz == Init /\ [][NextGaz]_vars

(***************************************************************************)
(* Calls of process_sentence, process_batch and format_output_csv          *)
(***************************************************************************)
MaxBatch == 2

SentenceIds == {<<"1">>, <<"2">>}

\* valid and invalid orders, with one and with two roles, and sentences that
\* mention a location a caller may register under the name INVALID
BatchTexts ==
    {<<"J", "e", " ", "v", "e", "u", "x", " ", "a", "l", "l", "e", "r", " ", "d", "e", " ", "P", "a", "r", "i", "s", " ", "U+00E0", " ", "L", "y", "o", "n">>,
     <<"P", "a", "r", "i", "s", " ", "L", "y", "o", "n">>,
     <<"J", "e", " ", "p", "a", "r", "s", " ", "d", "e", "m", "a", "i", "n">>,
     <<"a", "l", "l", "e", "r", " ", "U+00E0", " ", "I", "N", "V", "A", "L", "I", "D">>,
     <<"d", "e", " ", "I", "N", "V", "A", "L", "I", "D", " ", "U+00E0", " ", "I", "N", "V", "A", "L", "I", "D">>,
     <<"T", "r", "a", "i", "n", " ", "p", "o", "u", "r", " ", "M", "a", "r", "s", "e", "i", "l", "l", "e">>,
     <<"J", "e", " ", "v", "a", "i", "s", " ", "U+00E0", " ", "P", "a", "r", "i", "s">>,
     PyNone}

Batches == UNION {[1..k -> SentenceIds \X BatchTexts] : k \in 0..MaxBatch}

BatchAddNames == {INVALID}

ProcessSentence(id, t) ==
    Returns("process_sentence", <<id, t>>, process_sentence(normalized_to_original, id, t))

ProcessBatch(b) ==
    Returns("process_batch", b, process_batch(normalized_to_original, b))

\* the caller renders the result it holds
FormatOutputCsv ==
    /\ pc = "done"
    /\ op = "process_sentence"
    /\ ~raised
    /\ op' = "format_output_csv"
    /\ arg' = result
    /\ result' = format_output_csv(result)
    /\ UNCHANGED <<gaz, world, pc, raised>>

NextBatch ==
    \/ \E n \in BatchAddNames : add_city(n)
    \/ \E id \in SentenceIds, t \in BatchTexts : ProcessSentence(id, t)
    \/ \E b \in Batches : ProcessBatch(b)
    \/ FormatOutputCsv
    \/ Return

SpecBatch == Init /\ [][NextBatch]_vars

(***************************************************************************)
(* Calls that write the gazetteer, save it and load it                     *)
(***************************************************************************)
\* how many times a caller adds the same alias to the same city
MaxRepeats == 1

\* a second spelling of a default city
StoreCities == {<<"P", "A", "R", "I", "S">>}

\* (city, alias) arguments of add_alias: a key the defaults have, a new key
AliasPairs ==
    {<<<<"P", "a", "r", "i", "s">>, <<"p", "a", "n", "a", "m", "e">>>>,
     <<<<"S", "U+00E8", "t", "e">>, <<"c", "e", "t", "t", "e">>>>}

JsonPaths == {"nonexistent_file.json", "broken.json", "extra.json"}

CsvPaths == {"nonexistent_file.json", "broken.json", "cities.csv"}

SavePaths == {"saved.json"}

\* the Gazetteer of the state
Current == Instance(cities, stations, aliases, detached, normalized_to_original)

\* an add_alias that also indexes the alias as a spelling of the city
add_alias_indexing(city, alias) ==
    LET city_normalized == preprocess_for_matching(city)
    IN  /\ pc = "idle"
        /\ city_normalized \in DOMAIN aliases
               => Cardinality({i \in 1..Len(aliases[city_normalized]) :
                                  aliases[city_normalized][i] = alias}) < MaxRepeats
        /\ aliases' = IF city_normalized \in DOMAIN aliases
                      THEN [aliases EXCEPT ![city_normalized] = Append(@, alias)]
                      ELSE aliases @@ (city_normalized :> <<alias>>)
        /\ detached' = IF city_normalized \in DOMAIN aliases THEN detached
                       ELSE detached \cup {city_normalized}
        /\ CITY_ALIASES' = IF city_normalized \in DOMAIN aliases \ detached
                           THEN [CITY_ALIASES EXCEPT ![city_normalized] = Append(@, alias)]
                           ELSE CITY_ALIASES
        /\ normalized_to_original' =
               IndexPut(normalized_to_original, preprocess_for_matching(alias), city)
        /\ UNCHANGED <<cities, stations, files, pc, op, arg, raised, result>>

\* self.aliases[city_normalized].append(alias), on a new list if the key is
\* new; a list that is the module's own is the same object there
add_alias(city, alias) ==
    LET city_normalized == preprocess_for_matching(city)
    IN  /\ pc = "idle"
        /\ city_normalized \in DOMAIN aliases
               => Cardinality({i \in 1..Len(aliases[city_normalized]) :
                                  aliases[city_normalized][i] = alias}) < MaxRepeats
        /\ aliases' = IF city_normalized \in DOMAIN aliases
                      THEN [aliases EXCEPT ![city_normalized] = Append(@, alias)]
                      ELSE aliases @@ (city_normalized :> <<alias>>)
        /\ detached' = IF city_normalized \in DOMAIN aliases THEN detached
                       ELSE detached \cup {city_normalized}
        /\ CITY_ALIASES' = IF city_normalized \in DOMAIN aliases \ detached
                           THEN [CITY_ALIASES EXCEPT ![city_normalized] = Append(@, alias)]
                           ELSE CITY_ALIASES
        /\ UNCHANGED <<cities, stations, normalized_to_original, files,
                       pc, op, arg, raised, result>>

\* a load called on a path, run to its return or to the exception it raises
Loads(name, path, outcome) ==
    /\ pc = "idle"
    /\ pc' = "done"
    /\ op' = name
    /\ arg' = path
    /\ raised' = (outcome.raises # "")
    /\ result' = IF outcome.raises # "" THEN outcome.raises ELSE PyNone
    /\ cities' = outcome.gazetteer.cities
    /\ stations' = outcome.gazetteer.stations
    /\ aliases' = outcome.gazetteer.aliases
    /\ detached' = outcome.gazetteer.detached
    /\ normalized_to_original' = outcome.gazetteer.normalized_to_original
    /\ UNCHANGED world

LoadFromJson(path) == Loads("load_from_json", path, load_from_json(Current, files[path]))

LoadFromCsv(path) == Loads("load_from_csv", path, load_from_csv(Current, files[path], "city"))

SaveToJson(path) ==
    /\ pc = "idle"
    /\ pc' = "done"
    /\ op' = "save_to_json"
    /\ arg' = path
    /\ raised' = FALSE
    /\ result' = PyNone
    /\ files' = [files EXCEPT ![path] = save_to_json(Current)]
    /\ UNCHANGED <<gaz, CITY_ALIASES>>

\* Gazetteer(): a new instance, built from the module's data as it is now
Fresh == Instance(DefaultCities, DefaultStations, CITY_ALIASES, {}, DefaultIndex)

\* Gazetteer() with its cities, stations and index cleared
Emptied == Instance({}, {}, CITY_ALIASES, {}, <<>>)

\* the file just saved is loaded into a new, emptied Gazetteer
\* (test_save_and_load_json); result is that Gazetteer
LoadIntoEmptied ==
    /\ pc = "done"
    /\ op = "save_to_json"
    /\ op' = "load_into_emptied"
    /\ result' = load_from_json(Emptied, files[arg]).gazetteer
    /\ UNCHANGED <<gaz, world, pc, arg, raised>>

NextStore ==
    \/ \E n \in StoreCities : add_city(n)
    \/ \E n \in NewStations : add_station(n)
    \/ \E pair \in AliasPairs : add_alias(pair[1], pair[2])
    \/ \E path \in JsonPaths : LoadFromJson(path)
    \/ \E path \in CsvPaths : LoadFromCsv(path)
    \/ Return

SpecStore == Init /\ [][NextStore]_vars

\* a gazetteer is extended, saved, and the file loaded into an emptied one
NextRoundTrip ==
    \/ \E n \in StoreCities : add_city(n)
    \/ \E n \in NewStations : add_station(n)
    \/ \E pair \in AliasPairs : add_alias(pair[1], pair[2])
    \/ \E path \in SavePaths : SaveToJson(path)
    \/ LoadIntoEmptied
    \/ Return

SpecRoundTrip == Init /\ [][NextRoundTrip]_vars

(***************************************************************************)
(* Readers: the read operations of the gazetteer and of the extractor      *)
(***************************************************************************)
ReaderTexts ==
    {<<"J", "e", " ", "v", "e", "u", "x", " ", "a", "l", "l", "e", "r", " ", "d", "e", " ", "P", "a", "r", "i", "s", " ", "U+00E0", " ", "L", "y", "o", "n">>,
     <<"d", "e", " ", "P", "A", "R", "I", "S", " ", "U+00E0", " ", "N", "a", "n", "t", "e">>,
     <<"J", "e", " ", "p", "a", "r", "s", " ", "d", "e", "m", "a", "i", "n">>}

ReaderNames ==
    {<<"P", "a", "r", "i", "s">>, <<"P", "A", "R", "I", "S">>, <<"p", "a", "n", "a", "m", "e">>, <<"N", "a", "n", "t", "e">>}

ReaderBatches == UNION {[1..k -> {<<"1">>} \X ReaderTexts] : k \in 0..MaxBatch}

GetStats == Returns("get_stats", PyNone, get_stats(Current))

NextReaders ==
    \/ \E n \in StoreCities : add_city(n)
    \/ \E pair \in AliasPairs : add_alias(pair[1], pair[2])
    \/ \E t \in ReaderTexts : FindMatches(t)
    \/ \E n \in ReaderNames : FuzzyMatch(n, 2)
    \/ \E n \in ReaderNames : IsValidLocation(n)
    \/ \E n \in ReaderNames : GetCanonicalName(n)
    \/ GetStats
    \/ \E t \in ReaderTexts : Extract(t)
    \/ \E b \in ReaderBatches : ProcessBatch(b)
    \/ Return

SpecReaders == Init /\ [][NextReaders]_vars

(***************************************************************************)
(* Calls of find_matches with a min_length                                 *)
(***************************************************************************)
\* a name of two letters, and stations of four and of five words
ShortCities == {<<"E", "u">>}

LongStations ==
    {<<"P", "a", "r", "i", "s", " ", "G", "a", "r", "e", " ", "d", "e", " ", "L", "y", "o", "n">>,
     <<"G", "a", "r", "e", " ", "d", "e", " ", "L", "y", "o", "n", " ", "P", "a", "r", "t", " ", "D", "i", "e", "u">>}

FindTexts ==
    {<<>>,
     <<"a", " ", "b", " ", "c">>,
     <<"L", "e", " ", "H", "a", "v", "r", "e", " ", "P", "a", "r", "i", "s">>,
     <<"P", "a", "r", "i", "s", " ", "L", "e", " ", "H", "a", "v", "r", "e">>,
     <<"E", "u", " ", "P", "a", "r", "i", "s">>,
     <<"P", "a", "r", "i", "s", " ", "E", "u", " ", "P", "a", "r", "i", "s">>,
     <<"L", "e", " ", "H", "a", "v", "r", "e", " ", "E", "u", " ", "L", "e", " ", "H", "a", "v", "r", "e">>,
     <<"P", "a", "r", "i", "s", " ", "G", "a", "r", "e", " ", "d", "e", " ", "L", "y", "o", "n">>,
     <<"G", "a", "r", "e", " ", "d", "e", " ", "L", "y", "o", "n", " ", "P", "a", "r", "t", " ", "D", "i", "e", "u">>,
     <<"E", "u", " ", "L", "e", " ", "H", "a", "v", "r", "e", " ", "P", "a", "r", "i", "s", " ", "G", "a", "r", "e", " ", "d", "e", " ", "L", "y", "o", "n", " ", "P", "a", "r", "t", " ", "D", "i", "e", "u">>,
     <<"S", "a", "i", "n", "t", "-", "D", "e", "n", "i", "s", " ", "L", "e", " ", "M", "a", "n", "s", " ", "L", "y", "o", "n", " ", "L", "a", " ", "R", "o", "c", "h", "e", "l", "l", "e">>}

\* min_length: the default, one that lets a two-letter name in, and one that
\* keeps the five letters of Paris out
FindMinLengths == {2, DefaultMinLength, 6}

FindMatchesWith(t, min_length) ==
    /\ pc = "idle"
    /\ pc' = "done"
    /\ op' = "find_matches"
    /\ arg' = [text |-> t, min_length |-> min_length]
    /\ raised' = Raises(t)
    /\ result' = IF Raises(t) THEN NoResult
                 ELSE find_matches(normalized_to_original, t, min_length)
    /\ UNCHANGED <<gaz, world>>

NextFind ==
    \/ \E n \in ShortCities : add_city(n)
    \/ \E n \in LongStations : add_station(n)
    \/ \E t \in FindTexts : \E min_length \in FindMinLengths : FindMatchesWith(t, min_length)
    \/ Return

SpecFind == Init /\ [][NextFind]_vars

(***************************************************************************)
(* Properties of the extractor                                             *)
(***************************************************************************)
Done(name) == pc = "done" /\ op = name /\ ~raised

BothFilled(pair) == Truthy(pair[1]) /\ Truthy(pair[2])

\* C1: extract returns the all-absent 'invalid' result exactly when
\* is_valid_order is false; otherwise 'keywords' (with the keyword pair)
\* exactly when extract_with_keywords fills both roles; otherwise
\* 'direct_format' (with the direct pair) exactly when extract_direct_format
\* fills both roles; otherwise it goes on to the heuristic merge.
C1_MethodPrecedence ==
    Done("extract") =>
        LET valid == is_valid_order(normalized_to_original, arg)
            kw == extract_with_keywords(normalized_to_original, arg)
            direct == extract_direct_format(normalized_to_original, arg)
        IN  /\ (result = Outcome(PyNone, PyNone, FALSE, "invalid")) <=> ~valid
            /\ (result.method = "invalid") <=> ~valid
            /\ valid => ((result.method = "keywords") <=> BothFilled(kw))
            /\ (valid /\ BothFilled(kw)) => result = Outcome(kw[1], kw[2], TRUE, "keywords")
            /\ (valid /\ ~BothFilled(kw)) =>
                   ((result.method = "direct_format") <=> BothFilled(direct))
            /\ (valid /\ ~BothFilled(kw) /\ BothFilled(direct)) =>
                   result = Outcome(direct[1], direct[2], TRUE, "direct_format")
            /\ (valid /\ ~BothFilled(kw) /\ ~BothFilled(direct)) =>
                   result.method \in {"heuristic", "failed"}

\* a valid sentence for which both the keyword and the direct-format strategy
\* fill both roles, answered with method 'keywords'
C1_Witness ==
    /\ Done("extract")
    /\ is_valid_order(normalized_to_original, arg)
    /\ BothFilled(extract_with_keywords(normalized_to_original, arg))
    /\ BothFilled(extract_direct_format(normalized_to_original, arg))
    /\ result.method = "keywords"

\* registered names of one token and at least three normalized characters
\* that are their own canonical name
SingleTokenLocations ==
    {n \in cities \cup stations :
        /\ Len(Split(preprocess_for_matching(n))) = 1
        /\ Len(preprocess_for_matching(n)) >= DefaultMinLength
        /\ get_canonical_name(normalized_to_original, n) = n}

NoIndicator(text) ==
    \A k \in 1..Len(INVALID_INDICATORS) :
        ~IsSubstring(INVALID_INDICATORS[k], preprocess_for_matching(text))

\* "<lead>de X à Y"
DeXaY(lead, x, y) == lead \o <<"d", "e", " ">> \o x \o <<" ", "U+00E0", " ">> \o y

Leads == {<<>>, <<"J", "e", " ", "v", "e", "u", "x", " ", "a", "l", "l", "e", "r", " ">>}

\* C2: on '<non-location words> de X à Y', X and Y two distinct registered
\* single-token locations, with no indicator phrase and no other location,
\* extract returns origin X, destination Y, valid, method 'keywords'.
C2_DeXaY ==
    Done("extract") =>
        \A x, y \in SingleTokenLocations : \A lead \in Leads :
            (/\ x # y
             /\ arg = DeXaY(lead, x, y)
             /\ NoIndicator(arg)
             /\ SeqToSet(find_matches(normalized_to_original, arg, DefaultMinLength))
                    = {x, y})
            => result = Outcome(x, y, TRUE, "keywords")

\* a travel keyword is present in the sentence: the words of one of the
\* keywords of the three lists occur, in a row, among the words of the sentence
KeywordPresent(text) ==
    LET keywords == ORIGIN_KEYWORDS \o DESTINATION_KEYWORDS \o TRAVEL_VERBS
    IN  \E k \in 1..Len(keywords) :
            IsSubstring(Split(preprocess_for_matching(keywords[k])),
                        Split(preprocess_for_matching(text)))

\* C3: is_valid_order is true exactly when the normalized text has no
\* invalid-indicator phrase, find_matches returns at least one location, and
\* a travel keyword is present or at least two locations were found.
C3_ValidityRule ==
    Done("is_valid_order") =>
        LET locations == find_matches(normalized_to_original, arg, DefaultMinLength)
        IN  result = (/\ NoIndicator(arg)
                      /\ Len(locations) >= 1
                      /\ (KeywordPresent(arg) \/ Len(locations) >= 2))

\* C8: extract_direct_format returns the first two matches exactly when the
\* normalized text has the token 'billet' or 'ticket' and find_matches
\* returns two or more locations, and (none, none) otherwise.
C8_DirectFormat ==
    Done("extract_direct_format") =>
        LET tokens == Split(preprocess_for_matching(arg))
            locations == find_matches(normalized_to_original, arg, DefaultMinLength)
        IN  result = IF (InList(Billet, tokens) \/ InList(Ticket, tokens))
                        /\ Len(locations) >= 2
                     THEN <<locations[1], locations[2]>>
                     ELSE <<PyNone, PyNone>>

TextOperations ==
    {"extract", "is_valid_order", "extract_with_keywords", "extract_heuristic",
     "extract_direct_format"}

\* None, a non-str, the empty string, punctuation only, or garbage: no
\* registered name occurs anywhere in the normalized text
Malformed(v) ==
    \/ ~IsStr(v)
    \/ \A i \in 1..Len(normalized_to_original) :
           ~IsSubstring(normalized_to_original[i].key, preprocess_for_matching(v))

\* C10: extract, is_valid_order and the three strategies never raise, and on
\* malformed input extract returns valid = false, method 'invalid' or
\* 'failed', and no origin and no destination.
C10_NeverRaises ==
    (pc = "done" /\ op \in TextOperations) =>
        /\ ~raised
        /\ (op = "extract" /\ Malformed(arg)) =>
               /\ result.valid = FALSE
               /\ result.method \in {"invalid", "failed"}
               /\ result.origin = PyNone
               /\ result.destination = PyNone

\* extract has returned the 'invalid' result for a value that is no str
C10_Witness ==
    /\ pc = "done" /\ op = "extract" /\ arg = PyInt /\ ~raised
    /\ result = Outcome(PyNone, PyNone, FALSE, "invalid")

(***************************************************************************)
(* Properties of the preprocessing and of the gazetteer                    *)
(***************************************************************************)
\* C4: preprocess_for_matching is idempotent: applied to its own result it
\* returns that result unchanged.
C4_Idempotent ==
    Done("preprocess_for_matching") => preprocess_for_matching(result) = result

\* a call whose text the pipeline changed
C4_Witness ==
    /\ Done("preprocess_for_matching")
    /\ IsStr(arg)
    /\ result # <<>>
    /\ result # arg

\* C5: find_matches on a sentence that mentions a registered multi-word
\* location returns its canonical name, whether the words of the name are
\* separated by a hyphen, an en dash or a space.
C5_AnySeparator ==
    Done("find_matches") =>
        \A n \in cities \cup stations : \A sep \in Separators : \A lead \in MentionLeads :
            (/\ Len(split_multi_word_name(n)) > 1
             /\ arg = lead \o JoinWith(split_multi_word_name(n), sep))
            => InList(get_canonical_name(normalized_to_original, n), result)

\* C6: the list find_matches returns holds no canonical name twice.
C6_NoDuplicates ==
    Done("find_matches") =>
        \A i, j \in 1..Len(result) : i # j => result[i] # result[j]

\* a sentence in which two of the looked-up phrases resolve to the same name
C6_Witness ==
    /\ Done("find_matches")
    /\ LET phrases == ScanOrder(Split(preprocess_for_matching(arg)), DefaultMinLength)
       IN  \E i, j \in 1..Len(phrases) :
               /\ i < j
               /\ IndexHas(normalized_to_original, phrases[i])
               /\ IndexHas(normalized_to_original, phrases[j])
               /\ IndexGet(normalized_to_original, phrases[i])
                      = IndexGet(normalized_to_original, phrases[j])
    /\ Len(result) >= 1

\* the letters of a name, lower-cased and without any diacritic
BaseLetters(s) == Lower(StripMarks(s))

Cedillas == {"U+00E7", "U+00C7", "U+0327"}

\* the letters of a name, lower-cased and without any diacritic but the cedilla
BaseLettersAndCedillas(s) ==
    Lower(Flatten([i \in 1..Len(s) |->
                      IF s[i] \in Cedillas THEN <<s[i]>> ELSE StripMarks(<<s[i]>>)]))

LookupOperations == {"is_valid_location", "get_canonical_name"}

Lookup(name) ==
    IF op = "is_valid_location" THEN is_valid_location(normalized_to_original, name)
    ELSE get_canonical_name(normalized_to_original, name)

\* C7 as stated: two names that differ only in letter case or in the
\* diacritics of their letters, the cedilla among them, get the same answer
\* from is_valid_location and from get_canonical_name.
C7_CaseAndAccentInsensitive ==
    (pc = "done" /\ op \in LookupOperations /\ ~raised) =>
        \A other \in NameVariants :
            BaseLetters(other) = BaseLetters(arg) => Lookup(other) = result

\* C7: two names that differ only in letter case or in diacritics other than
\* the cedilla get the same answer from is_valid_location and from
\* get_canonical_name.
C7_InsensitiveButCedilla ==
    (pc = "done" /\ op \in LookupOperations /\ ~raised) =>
        \A other \in NameVariants :
            BaseLettersAndCedillas(other) = BaseLettersAndCedillas(arg)
                => Lookup(other) = result

\* an upper-case, accent-free spelling resolved to the registered accented name
C7_Witness ==
    /\ Done("get_canonical_name")
    /\ arg = <<"S", "E", "T", "E">>
    /\ result = <<"S", "U+00E8", "t", "e">>
    /\ \E other \in NameVariants :
           other # arg /\ BaseLettersAndCedillas(other) = BaseLettersAndCedillas(arg)

\* C9: fuzzy_match of a registered name, with max_distance >= 0, returns a
\* non-empty list whose first element is (the canonical form of the name, 0).
C9_ExactFirst ==
    (Done("fuzzy_match") /\ arg.name \in cities \cup stations /\ arg.max_distance >= 0) =>
        /\ result # <<>>
        /\ result[1] = [name |-> get_canonical_name(normalized_to_original, arg.name),
                        distance |-> 0]

(***************************************************************************)
(* Properties of the strategies                                            *)
(***************************************************************************)
\* the first of three values that is neither None nor empty, None if none is
FirstNonEmpty(a, b, c) ==
    IF Truthy(a) THEN a ELSE IF Truthy(b) THEN b ELSE IF Truthy(c) THEN c ELSE PyNone

\* C18: when is_valid_order holds and neither the keyword nor the
\* direct-format strategy fills both roles, extract returns for each role the
\* first non-empty of the keyword, direct-format and heuristic values, valid
\* with method 'heuristic' if a role is filled, else the 'failed' result.
C18_HeuristicMerge ==
    Done("extract") =>
        LET kw == extract_with_keywords(normalized_to_original, arg)
            direct == extract_direct_format(normalized_to_original, arg)
            heur == extract_heuristic(normalized_to_original, arg)
            origin == FirstNonEmpty(kw[1], direct[1], heur[1])
            destination == FirstNonEmpty(kw[2], direct[2], heur[2])
        IN  (/\ is_valid_order(normalized_to_original, arg)
             /\ ~BothFilled(kw)
             /\ ~BothFilled(direct))
            => result = IF Truthy(origin) \/ Truthy(destination)
                        THEN Outcome(origin, destination, TRUE, "heuristic")
                        ELSE Outcome(PyNone, PyNone, FALSE, "failed")

\* a merged result whose destination is the keyword strategy's although the
\* heuristic proposes another one
C18_Witness ==
    /\ Done("extract")
    /\ result.method = "heuristic"
    /\ LET kw == extract_with_keywords(normalized_to_original, arg)
           heur == extract_heuristic(normalized_to_original, arg)
       IN  /\ Truthy(kw[2])
           /\ Truthy(heur[2])
           /\ kw[2] # heur[2]
           /\ result.destination = kw[2]
           /\ result.origin = heur[1]

\* the positions of the tokens of a set after which some location of the
\* list occurs in the rest of the text
KeywordHits(tokens, keywords, locations) ==
    {i \in 1..Len(tokens) :
        /\ tokens[i] \in keywords
        /\ \E k \in 1..Len(locations) :
               IsSubstring(preprocess_for_matching(locations[k]),
                           Join(SubSeq(tokens, i + 1, Len(tokens))))}

\* the first location, in list order, that occurs in the text after position i
FirstAfter(tokens, i, locations) ==
    locations[SetMin({k \in 1..Len(locations) :
                         IsSubstring(preprocess_for_matching(locations[k]),
                                     Join(SubSeq(tokens, i + 1, Len(tokens))))})]

\* the role a left-to-right scan assigns: decided at the first keyword that
\* has a location after it, never changed afterwards
AssignedRole(tokens, keywords, locations) ==
    IF KeywordHits(tokens, keywords, locations) = {} THEN PyNone
    ELSE FirstAfter(tokens, SetMin(KeywordHits(tokens, keywords, locations)), locations)

PrecededBy(tokens, prepositions, location) ==
    LET words == Split(preprocess_for_matching(location))
    IN  \E i \in 1..Len(tokens) :
            /\ tokens[i] \in prepositions
            /\ i + Len(words) <= Len(tokens)
            /\ SubSeq(tokens, i + 1, i + Len(words)) = words

\* C20: extract_heuristic returns (none, none) with no match; with one match
\* that location as destination if 'a' / 'vers' / 'pour' immediately precedes
\* it, as origin if 'de' / 'depuis' immediately precedes it, as destination
\* otherwise; with two or more matches (first match, last match).
C20_Heuristic ==
    Done("extract_heuristic") =>
        LET tokens == Split(preprocess_for_matching(arg))
            locations == find_matches(normalized_to_original, arg, DefaultMinLength)
        IN  result =
                IF Len(locations) = 0 THEN <<PyNone, PyNone>>
                ELSE IF Len(locations) = 1
                THEN IF PrecededBy(tokens, DestinationTokens, locations[1])
                     THEN <<PyNone, locations[1]>>
                     ELSE IF PrecededBy(tokens, OriginTokens, locations[1])
                     THEN <<locations[1], PyNone>>
                     ELSE <<PyNone, locations[1]>>
                ELSE <<locations[1], locations[Len(locations)]>>

(***************************************************************************)
(* Properties of the batch operations                                      *)
(***************************************************************************)
Reverse(s) == [i \in 1..Len(s) |-> s[Len(s) + 1 - i]]

RECURSIVE FieldsFrom(_, _, _)
FieldsFrom(line, i, field) ==
    IF i > Len(line) THEN <<field>>
    ELSE IF line[i] = "," THEN <<field>> \o FieldsFrom(line, i + 1, <<>>)
    ELSE FieldsFrom(line, i + 1, Append(field, line[i]))

\* the comma-separated fields of a line
Fields(line) == FieldsFrom(line, 1, <<>>)

Rendered(role) == IF role = PyNone THEN INVALID ELSE role

\* the line is '<id>,<origin>,<destination>' with an absent role as INVALID
ThreeFieldLine ==
    /\ Fields(result) = <<arg.sentence_id, Rendered(arg.origin), Rendered(arg.destination)>>
    /\ ~arg.valid => Fields(result) = <<arg.sentence_id, INVALID, INVALID>>

\* C17 as stated: format_output_csv(result) is '<id>,<origin>,<destination>'
\* with an absent role rendered as INVALID; a result with valid=false renders
\* as '<id>,INVALID,INVALID' and a result with valid=true renders with an
\* origin or a destination field that is not INVALID.
C17_ValidHasField ==
    Done("format_output_csv") =>
        /\ ThreeFieldLine
        /\ arg.valid => (Fields(result)[2] # INVALID \/ Fields(result)[3] # INVALID)

\* C17, amended: the line is '<id>,<origin>,<destination>' with an absent
\* role rendered as INVALID; valid=false renders as '<id>,INVALID,INVALID';
\* valid=true has a role that is present and rendered as its canonical name,
\* so a field differs from INVALID unless every extracted location is itself
\* named INVALID.
C17_ValidHasRole ==
    Done("format_output_csv") =>
        /\ ThreeFieldLine
        /\ arg.valid =>
               /\ arg.origin # PyNone \/ arg.destination # PyNone
               /\ (Fields(result)[2] = INVALID /\ Fields(result)[3] = INVALID)
                      => {arg.origin, arg.destination} \subseteq {PyNone, INVALID}

\* a valid result with one role absent, the other rendered by its name
C17_Witness ==
    /\ Done("format_output_csv")
    /\ arg.valid
    /\ arg.origin = PyNone
    /\ Fields(result)[2] = INVALID
    /\ Fields(result)[3] = arg.destination
    /\ arg.destination # INVALID

(***************************************************************************)
(* Properties of the stored gazetteer                                      *)
(***************************************************************************)
IndexKeys(index) == {index[i].key : i \in 1..Len(index)}

IndexNames(index) == {index[i].name : i \in 1..Len(index)}

\* C12: after any sequence of add_city, add_station, add_alias,
\* load_from_json and load_from_csv calls the index is in sync with the name
\* sets: its keys are the normalized forms of the cities and stations, its
\* values are cities or stations, and is_valid_location holds for every city
\* and station.
C12_IndexInSync ==
    /\ IndexKeys(normalized_to_original)
           = {preprocess_for_matching(n) : n \in cities \cup stations}
    /\ IndexNames(normalized_to_original) \subseteq cities \cup stations
    /\ \A n \in cities \cup stations : is_valid_location(normalized_to_original, n)

\* every kind of write has been made, and a city shares its key with another
\* name that holds the entry
C12_Witness ==
    /\ Done("load_from_csv")
    /\ StoreCities \subseteq cities
    /\ NewStations \subseteq stations
    /\ aliases # DefaultAliases
    /\ \E n \in cities : get_canonical_name(normalized_to_original, n) # n

\* C13: load_from_json merges and never replaces: every city, station and
\* index key, and under every alias key every alias, present before a
\* successful load is present after it.
C13_LoadMerges ==
    [][(pc = "idle" /\ pc' = "done" /\ op' = "load_from_json" /\ ~raised')
           => /\ cities \subseteq cities'
              /\ stations \subseteq stations'
              /\ IndexKeys(normalized_to_original) \subseteq IndexKeys(normalized_to_original')
              /\ \A k \in DOMAIN aliases :
                     /\ k \in DOMAIN aliases'
                     /\ SeqToSet(aliases[k]) \subseteq SeqToSet(aliases'[k])]_vars

\* C14: load_from_json and load_from_csv on a path that does not exist raise
\* FileNotFoundError, load_from_json on a file that is no JSON raises the
\* parse error, and in each of these calls the cities, the stations, the
\* aliases and the index stay what they were.
C14_FailedLoadChangesNothing ==
    [][(pc = "idle" /\ pc' = "done" /\ op' \in {"load_from_json", "load_from_csv"})
           => /\ files[arg'].kind = "missing"
                     => raised' /\ result' = "FileNotFoundError" /\ UNCHANGED gaz
              /\ (op' = "load_from_json" /\ files[arg'].kind = "text")
                     => raised' /\ result' = "JSONDecodeError" /\ UNCHANGED gaz]_vars

\* a load that failed on a gazetteer that earlier writes had extended
C14_Witness ==
    /\ pc = "done"
    /\ op = "load_from_json"
    /\ raised
    /\ result = "JSONDecodeError"
    /\ StoreCities \subseteq cities
    /\ NewStations \subseteq stations
    /\ aliases # DefaultAliases

\* C15: save_to_json followed by load_from_json of the file into an emptied
\* gazetteer gives the saved state back: the same cities, stations and alias
\* table, and the same get_canonical_name for every name.
C15_RoundTrip ==
    Done("load_into_emptied") =>
        /\ result.cities = cities
        /\ result.stations = stations
        /\ result.aliases = aliases
        /\ \A n \in cities \cup stations :
               get_canonical_name(result.normalized_to_original, n)
                   = get_canonical_name(normalized_to_original, n)

ReadOperations ==
    {"find_matches", "fuzzy_match", "is_valid_location", "get_canonical_name",
     "get_stats", "extract", "process_batch"}

MaxSpan == 4

\* the phrase of `length` tokens that starts at token i
Span(tokens, length, i) == Join(SubSeq(tokens, i, i + length - 1))

\* the spans that are keys of the index: <<length, i>>, a single token only
\* when it has min_length characters
Hits(index, tokens, min_length) ==
    {h \in (1..MaxSpan) \X (1..Len(tokens)) :
        /\ h[2] + h[1] - 1 <= Len(tokens)
        /\ IndexHas(index, Span(tokens, h[1], h[2]))
        /\ h[1] = 1 => Len(tokens[h[2]]) >= min_length}

HitName(index, tokens, h) == IndexGet(index, Span(tokens, h[1], h[2]))

\* h is discovered before g: in an earlier pass, or earlier in the same pass
DiscoveredBefore(h, g) == h[1] < g[1] \/ (h[1] = g[1] /\ h[2] < g[2])

\* C21: find_matches returns the canonical names of the single tokens of at
\* least min_length characters that are index keys, then those of the windows
\* of 2, 3 and 4 tokens, each pass in text order and each name once, where it
\* is first discovered; nothing else is matched
C21_PassOrder ==
    Done("find_matches") =>
        LET index == normalized_to_original
            tokens == Split(preprocess_for_matching(arg.text))
            hits == Hits(index, tokens, arg.min_length)
            first(n) == CHOOSE h \in hits :
                            /\ HitName(index, tokens, h) = n
                            /\ \A g \in hits : HitName(index, tokens, g) = n /\ g # h
                                                  => DiscoveredBefore(h, g)
        IN  /\ SeqToSet(result) = {HitName(index, tokens, h) : h \in hits}
            /\ \A a, b \in 1..Len(result) :
                   a < b => /\ result[a] # result[b]
                            /\ DiscoveredBefore(first(result[a]), first(result[b]))

\* a single-word hit is listed before a multi-word hit whose span starts
\* earlier in the text, a token shorter than min_length that is a key is left
\* out, and so is a registered name of more than four tokens
C21_Witness ==
    /\ Done("find_matches")
    /\ LET index == normalized_to_original
           tokens == Split(preprocess_for_matching(arg.text))
           hits == Hits(index, tokens, arg.min_length)
       IN  /\ \E h, g \in hits : /\ h[1] = 1 /\ g[1] > 1 /\ g[2] < h[2]
                                 /\ \E a, b \in 1..Len(result) :
                                        /\ a < b
                                        /\ result[a] = HitName(index, tokens, h)
                                        /\ result[b] = HitName(index, tokens, g)
                                        /\ \A k \in hits : HitName(index, tokens, k) = result[b]
                                                              => k[1] > 1
           /\ \E i \in 1..Len(tokens) :
                  /\ IndexHas(index, tokens[i])
                  /\ ~InList(IndexGet(index, tokens[i]), result)
           /\ \E i \in 1..Len(tokens) :
                  /\ i + MaxSpan <= Len(tokens)
                  /\ IndexHas(index, Span(tokens, MaxSpan + 1, i))

(***************************************************************************)
(* Properties of the writes                                                *)
(***************************************************************************)
\* what add_city(n) / add_station(n) leaves behind, from index to index2
LastWriteWins(n, index, index2) ==
    LET key == preprocess_for_matching(n)
    IN  /\ \A m \in NameVariants \cup StoreCities :
               preprocess_for_matching(m) = key => get_canonical_name(index2, m) = n
        /\ \A k \in (IndexKeys(index) \cup IndexKeys(index2)) \ {key} :
               /\ IndexHas(index, k) /\ IndexHas(index2, k)
               /\ IndexGet(index2, k) = IndexGet(index, k)
        /\ GazetteerLen(index2) =
               GazetteerLen(index) + (IF IndexHas(index, key) THEN 0 ELSE 1)

\* C22: after add_city(n) or add_station(n) every spelling with the key of n
\* resolves to n, the names registered before are all still in their sets,
\* the entries under other keys are unchanged, and len(gazetteer) grows by
\* one exactly when the key is new
C22_LastWriteWins ==
    [][\A n \in StoreCities \cup NewStations :
           add_city(n) \/ add_station(n) =>
               /\ LastWriteWins(n, normalized_to_original, normalized_to_original')
               /\ cities \subseteq cities'
               /\ stations \subseteq stations']_vars

\* 'PARIS' has taken the key of 'Paris', which is still a city, without
\* making the gazetteer longer; the new station made it longer by one
C22_Witness ==
    /\ pc = "idle"
    /\ {<<"P", "a", "r", "i", "s">>, <<"P", "A", "R", "I", "S">>} \subseteq cities
    /\ get_canonical_name(normalized_to_original, <<"P", "a", "r", "i", "s">>) = <<"P", "A", "R", "I", "S">>
    /\ <<"S", "U+00E8", "t", "e">> \in stations
    /\ GazetteerLen(normalized_to_original) = GazetteerLen(DefaultIndex) + 1

(***************************************************************************)
(* Properties of fuzzy_match                                               *)
(***************************************************************************)
\* the index entry a returned pair comes from
EntryOf(index, name) == index[CHOOSE i \in 1..Len(index) : index[i].name = name]

\* matches and total length behind the ratio 2m/t of the asked name and an entry
Matched(name, entry) ==
    MatchingSize(fuzzy_normalize(name), fuzzy_normalize(entry.key))

Total(name, entry) == Len(fuzzy_normalize(name)) + Len(fuzzy_normalize(entry.key))

\* round((1 - 2m/t) * 10): the nearest integer, a half going to the even
\* neighbour (in double arithmetic the product stands just above a half at
\* ratio 0.95)
Rounded(m, t) ==
    IF t = 0 THEN 0
    ELSE LET twice == 2 * DistanceScale * (t - 2 * m)
             down == twice \div (2 * t)
             rest == twice % (2 * t)
         IN  IF rest < t THEN down
             ELSE IF rest > t THEN down + 1
             ELSE IF 40 * m = 19 * t THEN down + 1
             ELSE IF down % 2 = 0 THEN down ELSE down + 1

\* C23: every pair fuzzy_match returns comes from an entry with ratio > 0.7
\* and carries the distance round((1 - ratio) * 10)
C23_RoundedDistance ==
    Done("fuzzy_match") =>
        \A i \in 1..Len(result) :
            LET entry == EntryOf(normalized_to_original, result[i].name)
                m == Matched(arg.name, entry)
                t == Total(arg.name, entry)
            IN  /\ 20 * m > 7 * t
                /\ result[i].distance = Rounded(m, t)

\* where the entry of a name stands in the index
PositionOf(index, name) == CHOOSE i \in 1..Len(index) : index[i].name = name

\* the pairs of the entries with ratio > 0.7
Candidates(index, name) ==
    {[name |-> index[i].name,
      distance |-> Distance(Matched(name, index[i]), Total(name, index[i]))] :
        i \in {j \in 1..Len(index) :
                  SimilarEnough(Matched(name, index[j]), Total(name, index[j]))}}

\* C24: fuzzy_match returns its pairs in ascending distance, pairs of equal
\* distance in the order of the index, and they are exactly the candidates
\* with a distance of at most max_distance
C24_SortedAndFiltered ==
    Done("fuzzy_match") =>
        LET index == normalized_to_original
        IN  /\ \A a, b \in 1..Len(result) :
                   a < b =>
                       /\ result[a].distance <= result[b].distance
                       /\ result[a].distance = result[b].distance
                              => PositionOf(index, result[a].name)
                                     < PositionOf(index, result[b].name)
            /\ SeqToSet(result) =
                   {c \in Candidates(index, arg.name) : c.distance <= arg.max_distance}

\* three pairs: two of equal distance in index order, and one that the sort
\* moved behind an entry that stands later in the index
C24_Witness ==
    /\ Done("fuzzy_match")
    /\ LET index == normalized_to_original
       IN  \E a, b, c \in 1..Len(result) :
               /\ a < b /\ b < c
               /\ result[a].distance = result[b].distance
               /\ result[b].distance < result[c].distance
               /\ PositionOf(index, result[c].name) < PositionOf(index, result[b].name)

AliasesUnder(table, key) == IF key \in DOMAIN table THEN table[key] ELSE <<>>

\* the four lookups answer the same on both indexes
SameLookups(index, index2, names, texts) ==
    /\ \A n \in names :
           /\ is_valid_location(index2, n) = is_valid_location(index, n)
           /\ get_canonical_name(index2, n) = get_canonical_name(index, n)
           /\ fuzzy_match(index2, n, 2) = fuzzy_match(index, n, 2)
    /\ \A t \in texts :
           find_matches(index2, t, DefaultMinLength) = find_matches(index, t, DefaultMinLength)

\* C25: add_alias(canonical, alias) appends the alias to the list under the
\* normalized canonical name and leaves the other lists, the cities, the
\* stations and the index as they were, so the lookups answer as before and
\* the alias is no valid location
C25_AliasOnly ==
    [][\A pair \in AliasPairs :
           add_alias(pair[1], pair[2]) =>
               LET key == preprocess_for_matching(pair[1])
               IN  /\ aliases'[key] = Append(AliasesUnder(aliases, key), pair[2])
                   /\ DOMAIN aliases' = DOMAIN aliases \cup {key}
                   /\ \A k \in DOMAIN aliases \ {key} : aliases'[k] = aliases[k]
                   /\ cities' = cities
                   /\ stations' = stations
                   /\ normalized_to_original' = normalized_to_original
                   /\ SameLookups(normalized_to_original, normalized_to_original',
                                  ReaderNames \cup {pair[1], pair[2]},
                                  ReaderTexts \cup {pair[2]})
                   /\ ~is_valid_location(normalized_to_original', pair[2])]_vars

\* 'paname' is an alias of Paris and 'cette' of a key the defaults lack,
\* and neither is a valid location
C25_Witness ==
    /\ pc = "idle"
    /\ InList(<<"p", "a", "n", "a", "m", "e">>, AliasesUnder(aliases, <<"p", "a", "r", "i", "s">>))
    /\ InList(<<"c", "e", "t", "t", "e">>, AliasesUnder(aliases, <<"s", "e", "t", "e">>))
    /\ ~is_valid_location(normalized_to_original, <<"p", "a", "n", "a", "m", "e">>)
    /\ ~is_valid_location(normalized_to_original, <<"c", "e", "t", "t", "e">>)

(***************************************************************************)
(* Properties of the results of extract                                    *)
(***************************************************************************)
\* C26: extract never returns method 'failed': when is_valid_order holds the
\* heuristic fills a role, and the valid flag is what is_valid_order answers
C26_NeverFailed ==
    Done("extract") =>
        LET heur == extract_heuristic(normalized_to_original, arg)
            order == is_valid_order(normalized_to_original, arg)
        IN  /\ result.method # "failed"
            /\ result.valid = order
            /\ order => Truthy(heur[1]) \/ Truthy(heur[2])

\* a valid order with one location, which neither the keywords nor the
\* direct format assign: the heuristic alone fills a role
C26_Witness ==
    /\ Done("extract")
    /\ result.valid
    /\ extract_with_keywords(normalized_to_original, arg) = <<PyNone, PyNone>>
    /\ extract_direct_format(normalized_to_original, arg) = <<PyNone, PyNone>>
    /\ Len(find_matches(normalized_to_original, arg, DefaultMinLength)) = 1
    /\ result.method = "heuristic"

\* C27: when extract returns an origin and a destination, they are two
\* different names
C27_DistinctRoles ==
    Done("extract") /\ Truthy(result.origin) /\ Truthy(result.destination)
        => result.origin # result.destination

ValidMethods == {"keywords", "direct_format", "heuristic"}

\* C29: an invalid result has no role and method 'invalid' or 'failed'; a
\* valid one has a method of the three strategies and a role; 'keywords' and
\* 'direct_format' come with both roles; every role is a name find_matches
\* returns for the text
C29_ResultShape ==
    Done("extract") =>
        LET locations == find_matches(normalized_to_original, arg, DefaultMinLength)
        IN  /\ ~result.valid => /\ result.origin = PyNone
                                /\ result.destination = PyNone
                                /\ result.method \in {"invalid", "failed"}
            /\ result.valid => /\ result.method \in ValidMethods
                               /\ Truthy(result.origin) \/ Truthy(result.destination)
            /\ result.method \in {"keywords", "direct_format"}
                   => Truthy(result.origin) /\ Truthy(result.destination)
            /\ Truthy(result.origin) => InList(result.origin, locations)
            /\ Truthy(result.destination) => InList(result.destination, locations)

\* a valid result of the heuristic with a destination and no origin
C29_Witness ==
    /\ Done("extract")
    /\ result.valid
    /\ result.method = "heuristic"
    /\ result.origin = PyNone
    /\ InList(result.destination, find_matches(normalized_to_original, arg, DefaultMinLength))

(***************************************************************************)
(* Properties of the instances                                             *)
(***************************************************************************)
\* C28: no write on a Gazetteer changes the module's default alias data, and
\* a Gazetteer constructed at any time starts with the default aliases
C28_Isolated ==
    /\ CITY_ALIASES = DefaultAliases
    /\ Fresh.aliases = DefaultAliases

====
